---- MODULE Spec2Model ----
(***************************************************************************)
(* The transfer engine of app/services/transaction_service.py             *)
(* (TransactionService.transfer_funds_pessimistic and                     *)
(* transfer_funds_optimistic) run by concurrent callers, each inside its  *)
(* own `async with session.begin()` block, against one wallets /          *)
(* transactions store (PostgreSQL, READ COMMITTED, row locks).            *)
(* The HTTP adapter of app/api/v1/transactions.py (transfer_funds) is one  *)
(* such caller: it refreshes the returned object, commits, sends the two   *)
(* task messages and answers with a status.                                *)
(* Further scenarios: transfers run one at a time, pessimistic transfers    *)
(* under fair scheduling, the retry loop of demo_concurrency_control.py,    *)
(* the docstring's retry loop around the optimistic                        *)
(* engine, rows inserted directly against the constraints of the users,    *)
(* wallets and transactions tables (alembic/versions), and a Decimal taken  *)
(* through str()/JSON and through a Numeric(18, 4) column.                  *)
(*                                                                         *)
(* Amounts and balances are DECIMAL(18,4) values counted in units of      *)
(* 0.0001, so they are integers here and the arithmetic is exact.          *)
(***************************************************************************)
EXTENDS Integers, FiniteSets, Sequences, TLC

\* ------------------------------------------------------------------ bounds
MaxAmount == 2
MaxBalance == 3
MaxTransactionId == 2
MaxCoefficient == 120
MaxExponent == 2

\* --------------------------------------------------------------- constants
\* Wallet.version default (app/models/wallet.py)
InitVersion == 1

\* The wallets that exist, and one id that names no wallet.
Wallets == {"A", "B", "C"}
Missing == "X"
Ids == Wallets \cup {Missing}

\* The user ids there are, the owner of each wallet that exists (wallets.user_id
\* is unique and not null), and the ids a wallet created later can get.
Users == {"u1", "u2", "u3", "u4"}
Owner == [w \in Wallets |-> CASE w = "A" -> "u1" [] w = "B" -> "u2" [] OTHER -> "u3"]
NewWalletIds == {"D", "E"}
\* The ids a row inserted into the transactions table is given (uuid4 values).
TransactionIds == 1..MaxTransactionId
\* Numeric(18, 4): the scale of the balance and amount columns.
Scale == 4
\* A Decimal is its coefficient and exponent (value = coef * 10^exp); no value.
NoDecimal == [coef |-> -1, exp |-> 0]
NoCodec == [phase |-> "none", original |-> NoDecimal, json |-> <<>>,
            restored |-> NoDecimal, stored |-> NoDecimal, retrieved |-> NoDecimal]
\* No INSERT yet.
NoInsert == [table |-> "none", row |-> <<>>, violated |-> {}]

\* The concurrent execution contexts, each bound to its own session.
Contexts == <<"t1", "t2", "t3">>
Txns == {Contexts[i] : i \in DOMAIN Contexts}
Rank(t) == CHOOSE i \in DOMAIN Contexts : Contexts[i] = t
\* The contexts of a workload of two concurrent requests.
Pair == {Contexts[1], Contexts[2]}
NoTxn == "none"

Amounts == 0..MaxAmount
Modes == {"pessimistic", "optimistic"}

\* Transaction.status values (app/models/transaction.py)
TransactionStatus == {"PENDING", "COMPLETED", "FAILED"}

NoRow == [balance |-> -1, version |-> 0]
NoWrite == [balance |-> -1, version |-> -1]
\* A write whose UPDATE statement does not name the version column.
KeepVersion == 0
NoReq == [mode |-> "none", sender |-> Missing, receiver |-> Missing, amount |-> 0]
NoErr == [kind |-> "None", id |-> Missing, required |-> 0, available |-> 0]

VARIABLES
    balance,        \* committed wallets.balance, per wallet
    version,        \* committed wallets.version, per wallet
    transactions,   \* committed rows of the transactions table
    lock,           \* holder of each wallet row's lock (FOR UPDATE / UPDATE)
    pc,             \* position of each context in its caller/engine code
    req,            \* arguments of the engine call in progress
    sender_wallet,  \* the sender row as read by the call
    receiver_wallet,\* the receiver row as read by the call
    writes,         \* uncommitted wallet row changes of each session
    pending,        \* Transaction objects added to each session, not yet committed
    err,            \* exception raised by the engine call, if any
    pre,            \* history: the committed wallets when the call began
    interfered,     \* history: another session committed changes since the call began
    initial,        \* history: the balances of the initial state
    nextId,         \* next fresh Transaction.id
    adapter,        \* the context serves a POST /transactions/transfer request
    tasks,          \* the task messages sent to the queue so far, in order
    status,         \* HTTP status the adapter answered with, 0 while none
    attempt,        \* the retrying caller's loop variable: engine calls failed so far
    view,           \* what the session's reads return in a retried call
    users,          \* ids of the rows of the users table
    wallet_rows,    \* rows sessions have inserted into the wallets table
    last,           \* the last INSERT a session committed or had rejected
    codec           \* a Decimal on its way through JSON or through the store

vars == <<balance, version, transactions, lock, pc, req, sender_wallet,
          receiver_wallet, writes, pending, err, pre, interfered, initial,
          nextId, adapter, tasks, status, attempt, view, users, wallet_rows,
          last, codec>>

store == <<balance, version, transactions>>
locals == <<sender_wallet, receiver_wallet>>
history == <<pre, interfered, initial>>
http == <<adapter, tasks, status>>
retry == <<attempt, view>>
tables == <<users, wallet_rows, last>>

\* ------------------------------------------------------------------ errors
\* ValidationError("Transfer amount must be greater than zero")
InvalidAmount == [NoErr EXCEPT !.kind = "InvalidAmount"]
\* NotFoundError("Wallet", str(id))
AccountNotFound(id) == [NoErr EXCEPT !.kind = "AccountNotFound", !.id = id]
\* ValidationError("Cannot transfer funds to the same wallet")
SelfTransfer == [NoErr EXCEPT !.kind = "SelfTransfer"]
\* InsufficientFundsError(str(sender_wallet_id), amount, balance)
InsufficientFunds(id, required, available) ==
    [kind |-> "InsufficientFunds", id |-> id, required |-> required,
     available |-> available]
\* ConcurrencyError("Wallet", str(id))
ConcurrencyConflict(id) == [NoErr EXCEPT !.kind = "ConcurrencyConflict", !.id = id]
\* The store's error for the victim of a detected deadlock (a DBAPIError).
DeadlockDetected(id) == [NoErr EXCEPT !.kind = "DeadlockDetected", !.id = id]
\* Any other exception raised in the caller's own statements (the refresh of
\* the returned object, the sending of a task message).
Unexpected == [NoErr EXCEPT !.kind = "Unexpected"]

\* ------------------------------------------------------------------- store
\* The committed row of wallet w.
Row(w) == [balance |-> balance[w], version |-> version[w]]

NoWrites == [w \in Wallets |-> NoWrite]

\* (mutant) the locking read does not wait: with_for_update() left out
LockNeverWaits(t, w) == TRUE

\* (mutant) a session waits for a row lock even when it holds that lock itself
LockFreeNotReentrant(t, w) == lock[w] = NoTxn

\* The row lock of w is free for session t: nobody else holds it.
LockFree(t, w) == lock[w] \in {NoTxn, t}

TypeOK ==
    /\ balance \in [Wallets -> Int]
    /\ version \in [Wallets -> Nat]
    /\ lock \in [Wallets -> Txns \cup {NoTxn}]
    /\ pc \in [Txns -> {"idle", "lock_sender", "lock_receiver", "read_sender",
                        "read_receiver", "update_sender", "update_receiver",
                        "reread_sender", "reread_receiver",
                        "retry_update_sender", "retry_update_receiver",
                        "returned", "refreshed", "raised", "enqueue_email",
                        "enqueue_audit", "done"}]
    /\ nextId \in Nat
    /\ adapter \in [Txns -> BOOLEAN]
    /\ status \in [Txns -> {0, 200, 400, 404, 422, 500}]
    /\ attempt \in [Txns -> Nat]
    /\ view \in [Txns -> {"first", "row", "held", "synchronized"}]
    /\ users \subseteq Users
    /\ \A x \in wallet_rows :
          x.id \in NewWalletIds /\ x.user_id \in Users /\ x.balance \in Nat
    /\ last.table \in {"none", "users", "wallets", "transactions"}
    /\ codec.phase \in {"none", "validated", "dumped", "restored", "stored",
                        "retrieved"}

\* The initial stores: wallet A holds the largest balance, wallet C none and
\* wallet B any balance in between.
InitBalances ==
    {b \in [Wallets -> 0..MaxBalance] : b["A"] = MaxBalance /\ b["C"] = 0}

Init ==
    /\ balance \in InitBalances
    /\ version = [w \in Wallets |-> InitVersion]
    /\ transactions = {}
    /\ lock = [w \in Wallets |-> NoTxn]
    /\ pc = [t \in Txns |-> "idle"]
    /\ req = [t \in Txns |-> NoReq]
    /\ sender_wallet = [t \in Txns |-> NoRow]
    /\ receiver_wallet = [t \in Txns |-> NoRow]
    /\ writes = [t \in Txns |-> NoWrites]
    /\ pending = [t \in Txns |-> {}]
    /\ err = [t \in Txns |-> NoErr]
    /\ pre = [t \in Txns |-> [w \in Wallets |-> NoRow]]
    /\ interfered = [t \in Txns |-> FALSE]
    /\ initial = balance
    /\ nextId = 1
    /\ adapter = [t \in Txns |-> FALSE]
    /\ tasks = <<>>
    /\ status = [t \in Txns |-> 0]
    /\ attempt = [t \in Txns |-> 0]
    /\ view = [t \in Txns |-> "first"]
    /\ users = {Owner[w] : w \in Wallets}
    /\ wallet_rows = {}
    /\ last = NoInsert
    /\ codec = NoCodec

\* ------------------------------------------------------------------ caller
\* Each context serves one request. Idle contexts are interchangeable: a
\* request is served by the first one.
FirstIdle(t) == \A u \in Txns : pc[u] = "idle" => Rank(t) <= Rank(u)
\* The caller opens a transaction (session.begin()) and calls the engine;
\* the engine's first statement validates the amount.
Call(t, mode, s, r, a) ==
    /\ pc[t] = "idle"
    /\ FirstIdle(t)
    /\ req' = [req EXCEPT ![t] = [mode |-> mode, sender |-> s, receiver |-> r,
                                  amount |-> a]]
    /\ pre' = [pre EXCEPT ![t] = [w \in Wallets |-> Row(w)]]
    /\ interfered' = [interfered EXCEPT ![t] = FALSE]
    /\ IF a <= 0
         THEN /\ pc' = [pc EXCEPT ![t] = "raised"]
              /\ err' = [err EXCEPT ![t] = InvalidAmount]
         ELSE /\ pc' = [pc EXCEPT ![t] = IF mode = "pessimistic"
                                           THEN "lock_sender" ELSE "read_sender"]
              /\ err' = err
    /\ UNCHANGED <<store, lock, locals, writes, pending, initial, nextId, http, retry, tables, codec>>

\* ---------------------------------------------------------- engine, shared
\* sender balance after `balance -= amount` / `sender_balance - amount`
Debit(b, amount) == b - amount

\* (mutant) the receiver is credited what the sender held, not the amount
CreditWrongOperand(b, amount) == b + b

\* receiver balance after `balance += amount` / `receiver_balance + amount`
Credit(b, amount) == b + amount

\* (mutant) the funds check is left out
ChecksWithoutFunds(s, r, amount, available) ==
    IF s = r THEN SelfTransfer ELSE NoErr

\* (mutant) the funds check comes before the self-transfer check
ChecksFundsFirst(s, r, amount, available) ==
    IF available < amount THEN InsufficientFunds(s, amount, available)
    ELSE IF s = r THEN SelfTransfer
    ELSE NoErr

\* (mutant) InsufficientFundsError is built with its two amounts swapped
ChecksSwappedAmounts(s, r, amount, available) ==
    IF s = r THEN SelfTransfer
    ELSE IF available < amount THEN InsufficientFunds(s, available, amount)
    ELSE NoErr

\* Validation steps 4 and 5, on the rows read: the error raised, or NoErr.
Checks(s, r, amount, available) ==
    IF s = r THEN SelfTransfer
    ELSE IF available < amount THEN InsufficientFunds(s, amount, available)
    ELSE NoErr

\* (mutant) status is left to the column default instead of COMPLETED
NewTransactionPending(s, r, amount) ==
    [sender |-> s, receiver |-> r, amount |-> amount, status |-> "PENDING"]

\* The Transaction object the engine adds to the session.
NewTransaction(s, r, amount) ==
    [sender |-> s, receiver |-> r, amount |-> amount, status |-> "COMPLETED"]

\* ------------------------------------------------------- pessimistic engine
\* (mutant) the sender's read without with_for_update(): no lock is taken
PessLockSenderNoForUpdate(t) ==
    LET s == req[t].sender IN
    /\ pc[t] = "lock_sender"
    /\ IF s \notin Wallets
         THEN /\ pc' = [pc EXCEPT ![t] = "raised"]
              /\ err' = [err EXCEPT ![t] = AccountNotFound(s)]
              /\ UNCHANGED sender_wallet
         ELSE /\ sender_wallet' = [sender_wallet EXCEPT ![t] = Row(s)]
              /\ pc' = [pc EXCEPT ![t] = "lock_receiver"]
              /\ err' = err
    /\ UNCHANGED <<store, lock, req, receiver_wallet, writes, pending, history, nextId,
                   http, retry, tables, codec>>

\* select(Wallet).where(Wallet.id == sender_wallet_id).with_for_update():
\* waits until the row's lock is free, takes it and reads the committed row;
\* no row: NotFoundError.
PessLockSender(t) ==
    LET s == req[t].sender IN
    /\ pc[t] = "lock_sender"
    /\ IF s \notin Wallets
         THEN /\ pc' = [pc EXCEPT ![t] = "raised"]
              /\ err' = [err EXCEPT ![t] = AccountNotFound(s)]
              /\ UNCHANGED <<lock, sender_wallet>>
         ELSE /\ LockFree(t, s)
              /\ lock' = [lock EXCEPT ![s] = t]
              /\ sender_wallet' = [sender_wallet EXCEPT ![t] = Row(s)]
              /\ pc' = [pc EXCEPT ![t] = "lock_receiver"]
              /\ err' = err
    /\ UNCHANGED <<store, req, receiver_wallet, writes, pending, history, nextId, http, retry, tables, codec>>

\* The engine from the receiver's locking read to its return: the read, the
\* self-transfer and funds checks, the two in-memory balance changes and
\* session.add(Transaction(...)).
PessLockReceiver(t) ==
    LET s == req[t].sender
        r == req[t].receiver
        amount == req[t].amount
    IN
    /\ pc[t] = "lock_receiver"
    /\ IF r \notin Wallets
         THEN /\ pc' = [pc EXCEPT ![t] = "raised"]
              /\ err' = [err EXCEPT ![t] = AccountNotFound(r)]
              /\ UNCHANGED <<lock, receiver_wallet, writes, pending>>
         ELSE /\ LockFree(t, r)
              /\ lock' = [lock EXCEPT ![r] = t]
              /\ receiver_wallet' = [receiver_wallet EXCEPT ![t] = Row(r)]
              /\ IF Checks(s, r, amount, sender_wallet[t].balance) # NoErr
                   THEN /\ pc' = [pc EXCEPT ![t] = "raised"]
                        /\ err' = [err EXCEPT ![t] =
                               Checks(s, r, amount, sender_wallet[t].balance)]
                        /\ UNCHANGED <<writes, pending>>
                   ELSE /\ writes' = [writes EXCEPT
                               ![t][s] = [balance |-> Debit(sender_wallet[t].balance, amount),
                                          version |-> KeepVersion],
                               ![t][r] = [balance |-> Credit(Row(r).balance, amount),
                                          version |-> KeepVersion]]
                        /\ pending' = [pending EXCEPT ![t] =
                               pending[t] \cup {NewTransaction(s, r, amount)}]
                        /\ pc' = [pc EXCEPT ![t] = "returned"]
                        /\ err' = err
    /\ UNCHANGED <<store, req, sender_wallet, history, nextId, http, retry, tables, codec>>

\* -------------------------------------------------------- optimistic engine
\* select(Wallet).where(Wallet.id == sender_wallet_id): a plain read of the
\* committed row, remembered as sender_version / sender_balance.
OptReadSender(t) ==
    LET s == req[t].sender IN
    /\ pc[t] = "read_sender"
    /\ IF s \notin Wallets
         THEN /\ pc' = [pc EXCEPT ![t] = "raised"]
              /\ err' = [err EXCEPT ![t] = AccountNotFound(s)]
              /\ UNCHANGED sender_wallet
         ELSE /\ sender_wallet' = [sender_wallet EXCEPT ![t] = Row(s)]
              /\ pc' = [pc EXCEPT ![t] = "read_receiver"]
              /\ err' = err
    /\ UNCHANGED <<store, lock, req, receiver_wallet, writes, pending, history, nextId, http, retry, tables, codec>>

\* (mutant) the optimistic engine checks the funds before it looks for the
\* receiver
OptReadReceiverFundsFirst(t) ==
    LET s == req[t].sender
        r == req[t].receiver
        amount == req[t].amount
    IN
    /\ pc[t] = "read_receiver"
    /\ IF sender_wallet[t].balance < amount
         THEN /\ pc' = [pc EXCEPT ![t] = "raised"]
              /\ err' = [err EXCEPT ![t] =
                     InsufficientFunds(s, amount, sender_wallet[t].balance)]
              /\ UNCHANGED receiver_wallet
         ELSE IF r \notin Wallets
         THEN /\ pc' = [pc EXCEPT ![t] = "raised"]
              /\ err' = [err EXCEPT ![t] = AccountNotFound(r)]
              /\ UNCHANGED receiver_wallet
         ELSE /\ receiver_wallet' = [receiver_wallet EXCEPT ![t] = Row(r)]
              /\ IF Checks(s, r, amount, sender_wallet[t].balance) # NoErr
                   THEN /\ pc' = [pc EXCEPT ![t] = "raised"]
                        /\ err' = [err EXCEPT ![t] =
                               Checks(s, r, amount, sender_wallet[t].balance)]
                   ELSE /\ pc' = [pc EXCEPT ![t] = "update_sender"]
                        /\ err' = err
    /\ UNCHANGED <<store, lock, req, sender_wallet, writes, pending, history, nextId,
                   http, retry, tables, codec>>

\* The plain read of the receiver, then the self-transfer and funds checks
\* on the remembered values.
OptReadReceiver(t) ==
    LET s == req[t].sender
        r == req[t].receiver
        amount == req[t].amount
    IN
    /\ pc[t] = "read_receiver"
    /\ IF r \notin Wallets
         THEN /\ pc' = [pc EXCEPT ![t] = "raised"]
              /\ err' = [err EXCEPT ![t] = AccountNotFound(r)]
              /\ UNCHANGED receiver_wallet
         ELSE /\ receiver_wallet' = [receiver_wallet EXCEPT ![t] = Row(r)]
              /\ IF Checks(s, r, amount, sender_wallet[t].balance) # NoErr
                   THEN /\ pc' = [pc EXCEPT ![t] = "raised"]
                        /\ err' = [err EXCEPT ![t] =
                               Checks(s, r, amount, sender_wallet[t].balance)]
                   ELSE /\ pc' = [pc EXCEPT ![t] = "update_sender"]
                        /\ err' = err
    /\ UNCHANGED <<store, lock, req, sender_wallet, writes, pending, history, nextId, http, retry, tables, codec>>

\* (mutant) the UPDATE's WHERE clause names the id only, not the version
MatchesIdOnly(w, v) == TRUE

\* UPDATE wallets SET ... WHERE id = w AND version = v finds a row: the
\* committed row of w has version v.
Matches(w, v) == version[w] = v

\* (mutant) the sender's rowcount is not looked at: the engine goes on
OptUpdateSenderIgnoresRowcount(t) ==
    LET s == req[t].sender
        amount == req[t].amount
    IN
    /\ pc[t] = "update_sender"
    /\ IF Matches(s, sender_wallet[t].version)
         THEN /\ LockFree(t, s)
              /\ lock' = [lock EXCEPT ![s] = t]
              /\ writes' = [writes EXCEPT ![t][s] =
                     [balance |-> Debit(sender_wallet[t].balance, amount),
                      version |-> sender_wallet[t].version + 1]]
         ELSE UNCHANGED <<lock, writes>>
    /\ pc' = [pc EXCEPT ![t] = "update_receiver"]
    /\ UNCHANGED <<store, req, locals, pending, err, history, nextId, http, retry,
                   tables, codec>>

\* (mutant) on rowcount 0 the engine reads the sender again and retries
OptUpdateSenderRetries(t) ==
    LET s == req[t].sender
        amount == req[t].amount
    IN
    /\ pc[t] = "update_sender"
    /\ IF Matches(s, sender_wallet[t].version)
         THEN /\ LockFree(t, s)
              /\ lock' = [lock EXCEPT ![s] = t]
              /\ writes' = [writes EXCEPT ![t][s] =
                     [balance |-> Debit(sender_wallet[t].balance, amount),
                      version |-> sender_wallet[t].version + 1]]
              /\ pc' = [pc EXCEPT ![t] = "update_receiver"]
         ELSE /\ pc' = [pc EXCEPT ![t] = "read_sender"]
              /\ UNCHANGED <<lock, writes>>
    /\ UNCHANGED <<store, req, locals, pending, err, history, nextId, http, retry,
                   tables, codec>>

\* update(Wallet).where(id == sender_wallet_id, version == sender_version)
\*   .values(balance = sender_balance - amount, version = sender_version + 1).
\* A matching row is written once its lock is free (the statement waits for
\* the lock holder to end, then looks at the row again); rowcount 0 raises
\* ConcurrencyError for the sender.
OptUpdateSender(t) ==
    LET s == req[t].sender
        amount == req[t].amount
    IN
    /\ pc[t] = "update_sender"
    /\ IF Matches(s, sender_wallet[t].version)
         THEN /\ LockFree(t, s)
              /\ lock' = [lock EXCEPT ![s] = t]
              /\ writes' = [writes EXCEPT ![t][s] =
                     [balance |-> Debit(sender_wallet[t].balance, amount),
                      version |-> sender_wallet[t].version + 1]]
              /\ pc' = [pc EXCEPT ![t] = "update_receiver"]
              /\ err' = err
         ELSE /\ pc' = [pc EXCEPT ![t] = "raised"]
              /\ err' = [err EXCEPT ![t] = ConcurrencyConflict(s)]
              /\ UNCHANGED <<lock, writes>>
    /\ UNCHANGED <<store, req, locals, pending, history, nextId, http, retry, tables, codec>>

\* (mutant) the receiver's update leaves the version column out of values()
OptUpdateReceiverKeepsVersion(t) ==
    LET s == req[t].sender
        r == req[t].receiver
        amount == req[t].amount
    IN
    /\ pc[t] = "update_receiver"
    /\ IF Matches(r, receiver_wallet[t].version)
         THEN /\ LockFree(t, r)
              /\ lock' = [lock EXCEPT ![r] = t]
              /\ writes' = [writes EXCEPT ![t][r] =
                     [balance |-> Credit(receiver_wallet[t].balance, amount),
                      version |-> KeepVersion]]
              /\ pending' = [pending EXCEPT ![t] =
                     pending[t] \cup {NewTransaction(s, r, amount)}]
              /\ pc' = [pc EXCEPT ![t] = "returned"]
              /\ err' = err
         ELSE /\ pc' = [pc EXCEPT ![t] = "raised"]
              /\ err' = [err EXCEPT ![t] = ConcurrencyConflict(r)]
              /\ UNCHANGED <<lock, writes, pending>>
    /\ UNCHANGED <<store, req, locals, history, nextId, http, retry, tables, codec>>

\* The same conditional update for the receiver; rowcount 0 raises
\* ConcurrencyError for the receiver, otherwise session.add(Transaction(...))
\* and the engine returns.
OptUpdateReceiver(t) ==
    LET s == req[t].sender
        r == req[t].receiver
        amount == req[t].amount
    IN
    /\ pc[t] = "update_receiver"
    /\ IF Matches(r, receiver_wallet[t].version)
         THEN /\ LockFree(t, r)
              /\ lock' = [lock EXCEPT ![r] = t]
              /\ writes' = [writes EXCEPT ![t][r] =
                     [balance |-> Credit(receiver_wallet[t].balance, amount),
                      version |-> receiver_wallet[t].version + 1]]
              /\ pending' = [pending EXCEPT ![t] =
                     pending[t] \cup {NewTransaction(s, r, amount)}]
              /\ pc' = [pc EXCEPT ![t] = "returned"]
              /\ err' = err
         ELSE /\ pc' = [pc EXCEPT ![t] = "raised"]
              /\ err' = [err EXCEPT ![t] = ConcurrencyConflict(r)]
              /\ UNCHANGED <<lock, writes, pending>>
    /\ UNCHANGED <<store, req, locals, history, nextId, http, retry, tables, codec>>

\* ------------------------------------------------------------ lock waits
NoWallet == "-"

\* The row of w as a statement of session t's open transaction finds it: the
\* transaction's own uncommitted UPDATE if it made one, else the committed row.
RowSeenBy(t, w) ==
    IF writes[t][w] = NoWrite THEN Row(w)
    ELSE [balance |-> writes[t][w].balance,
          version |-> IF writes[t][w].version = KeepVersion
                        THEN version[w] ELSE writes[t][w].version]

\* The wallet whose row lock the next statement of t needs.
Wants(t) ==
    CASE pc[t] = "lock_sender" /\ req[t].sender \in Wallets -> req[t].sender
      [] pc[t] = "lock_receiver" /\ req[t].receiver \in Wallets -> req[t].receiver
      [] pc[t] = "update_sender" /\ Matches(req[t].sender, sender_wallet[t].version)
            -> req[t].sender
      [] pc[t] = "update_receiver" /\ Matches(req[t].receiver, receiver_wallet[t].version)
            -> req[t].receiver
      [] pc[t] = "retry_update_sender"
            /\ RowSeenBy(t, req[t].sender).version = sender_wallet[t].version
            -> req[t].sender
      [] pc[t] = "retry_update_receiver"
            /\ RowSeenBy(t, req[t].receiver).version = receiver_wallet[t].version
            -> req[t].receiver
      [] OTHER -> NoWallet

\* t waits for a lock that u holds.
WaitsFor(t, u) == Wants(t) # NoWallet /\ u # t /\ lock[Wants(t)] = u

Waiting(t) == \E u \in Txns : WaitsFor(t, u)

\* The contexts t waits for, directly or through other waiting contexts.
RECURSIVE Upstream(_, _)
Upstream(seen, n) ==
    IF n = 0 THEN seen
    ELSE Upstream(seen \cup {u \in Txns : \E x \in seen : WaitsFor(x, u)}, n - 1)

Deadlocked(t) ==
    Waiting(t) /\ t \in Upstream({u \in Txns : WaitsFor(t, u)}, Cardinality(Txns))

\* The store finds t's lock wait in a cycle of waits and aborts t's statement;
\* session.execute raises the driver's error out of the engine.
DeadlockAbort(t) ==
    /\ Deadlocked(t)
    /\ pc' = [pc EXCEPT ![t] = "raised"]
    /\ err' = [err EXCEPT ![t] = DeadlockDetected(Wants(t))]
    /\ UNCHANGED <<store, lock, req, locals, writes, pending, history, nextId, http, retry, tables, codec>>

\* ------------------------------------------------------ transaction's end
\* The rows a session's commit leaves in the wallets table.
Flushed(t, w) ==
    IF writes[t][w] = NoWrite THEN Row(w)
    ELSE [balance |-> writes[t][w].balance,
          version |-> IF writes[t][w].version = KeepVersion
                        THEN version[w] ELSE writes[t][w].version]

HasWrites(t) == \E w \in Wallets : writes[t][w] # NoWrite

Release(t) == [w \in Wallets |-> IF lock[w] = t THEN NoTxn ELSE lock[w]]

\* The caller's statement after the engine call, still inside the
\* `async with session.begin()` block: session.refresh(transaction), on an
\* object the session has added but not flushed. It returns or it raises.
Refresh(t) ==
    /\ pc[t] = "returned"
    /\ \/ /\ pc' = [pc EXCEPT ![t] = "refreshed"]
          /\ err' = err
       \/ /\ pc' = [pc EXCEPT ![t] = "raised"]
          /\ err' = [err EXCEPT ![t] = Unexpected]
    /\ UNCHANGED <<store, lock, req, locals, writes, pending, history, nextId, http, retry, tables, codec>>

\* (mutant) the id default is one value computed once, not a call per row
CommitReusesId(t) ==
    /\ pc[t] \in {"returned", "refreshed"}
    /\ adapter[t] => pc[t] = "refreshed"
    /\ balance' = [w \in Wallets |-> Flushed(t, w).balance]
    /\ version' = [w \in Wallets |-> Flushed(t, w).version]
    /\ transactions' = transactions \cup
           {[id |-> nextId, by |-> t, sender |-> x.sender,
             receiver |-> x.receiver, amount |-> x.amount, status |-> x.status]
              : x \in pending[t]}
    /\ nextId' = nextId
    /\ lock' = Release(t)
    /\ writes' = [writes EXCEPT ![t] = NoWrites]
    /\ pending' = [pending EXCEPT ![t] = {}]
    /\ pc' = [pc EXCEPT ![t] = IF adapter[t] THEN "enqueue_email" ELSE "done"]
    /\ interfered' = [u \in Txns |->
           IF u # t /\ pc[u] # "idle" /\ HasWrites(t) THEN TRUE ELSE interfered[u]]
    /\ UNCHANGED <<req, locals, err, pre, initial, http, retry, tables, codec>>

\* The block `async with session.begin()` exits normally (for the adapter,
\* after the refresh): the session flushes its changes and commits; the row
\* locks are released. The adapter goes on to send the task messages.
Commit(t) ==
    /\ pc[t] \in {"returned", "refreshed"}
    /\ adapter[t] => pc[t] = "refreshed"
    /\ balance' = [w \in Wallets |-> Flushed(t, w).balance]
    /\ version' = [w \in Wallets |-> Flushed(t, w).version]
    /\ transactions' = transactions \cup
           {[id |-> nextId, by |-> t, sender |-> x.sender,
             receiver |-> x.receiver, amount |-> x.amount, status |-> x.status]
              : x \in pending[t]}
    /\ nextId' = IF pending[t] = {} THEN nextId ELSE nextId + 1
    /\ lock' = Release(t)
    /\ writes' = [writes EXCEPT ![t] = NoWrites]
    /\ pending' = [pending EXCEPT ![t] = {}]
    /\ pc' = [pc EXCEPT ![t] = IF adapter[t] THEN "enqueue_email" ELSE "done"]
    /\ interfered' = [u \in Txns |->
           IF u # t /\ pc[u] # "idle" /\ HasWrites(t) THEN TRUE ELSE interfered[u]]
    /\ UNCHANGED <<req, locals, err, pre, initial, http, retry, tables, codec>>

\* (mutant) the except chain has no NotFoundError branch
HttpStatusNoNotFoundBranch(e) ==
    CASE e.kind \in {"InvalidAmount", "SelfTransfer"} -> 400
      [] e.kind = "InsufficientFunds" -> 400
      [] OTHER -> 500

\* (mutant) the catch-all branch answers like a validation failure
HttpStatusCatchAllBadRequest(e) ==
    CASE e.kind = "AccountNotFound" -> 404
      [] e.kind \in {"InvalidAmount", "SelfTransfer"} -> 400
      [] e.kind = "InsufficientFunds" -> 400
      [] OTHER -> 400

\* The adapter's except chain: NotFoundError -> 404, ValidationError -> 400,
\* InsufficientFundsError -> 400, any other exception -> 500.
HttpStatus(e) ==
    CASE e.kind = "AccountNotFound" -> 404
      [] e.kind \in {"InvalidAmount", "SelfTransfer"} -> 400
      [] e.kind = "InsufficientFunds" -> 400
      [] OTHER -> 500

\* (mutant) leaving the block on an exception commits what the session holds
RollbackKeepsChanges(t) ==
    /\ pc[t] = "raised"
    /\ balance' = [w \in Wallets |-> Flushed(t, w).balance]
    /\ version' = [w \in Wallets |-> Flushed(t, w).version]
    /\ lock' = Release(t)
    /\ writes' = [writes EXCEPT ![t] = NoWrites]
    /\ pending' = [pending EXCEPT ![t] = {}]
    /\ pc' = [pc EXCEPT ![t] = "done"]
    /\ UNCHANGED <<transactions, req, locals, err, history, nextId, http, retry, tables, codec>>

\* (mutant) the failed transaction is left open: its row locks stay
RollbackKeepsLocks(t) ==
    /\ pc[t] = "raised"
    /\ writes' = [writes EXCEPT ![t] = NoWrites]
    /\ pending' = [pending EXCEPT ![t] = {}]
    /\ pc' = [pc EXCEPT ![t] = "done"]
    /\ status' = [status EXCEPT ![t] = IF adapter[t] THEN HttpStatus(err[t]) ELSE @]
    /\ UNCHANGED <<store, lock, req, locals, err, history, nextId, adapter, tasks,
                   retry, tables, codec>>

\* (mutant) after rolling back, the handler sends a FAILED notification
RollbackNotifiesFailure(t) ==
    /\ pc[t] = "raised"
    /\ lock' = Release(t)
    /\ writes' = [writes EXCEPT ![t] = NoWrites]
    /\ pending' = [pending EXCEPT ![t] = {}]
    /\ pc' = [pc EXCEPT ![t] = "done"]
    /\ status' = [status EXCEPT ![t] = IF adapter[t] THEN HttpStatus(err[t]) ELSE @]
    /\ tasks' = Append(tasks,
           [task |-> "send_transaction_email", by |-> t, transaction_id |-> 0,
            sender |-> Missing, receiver |-> Missing, amount |-> req[t].amount,
            status |-> "FAILED"])
    /\ UNCHANGED <<store, req, locals, err, history, nextId, adapter, retry, tables, codec>>

\* An exception leaves the block `async with session.begin()`: the
\* transaction is rolled back, its changes are dropped and the row locks
\* released. The adapter then answers with the status of its except chain.
Rollback(t) ==
    /\ pc[t] = "raised"
    /\ lock' = Release(t)
    /\ writes' = [writes EXCEPT ![t] = NoWrites]
    /\ pending' = [pending EXCEPT ![t] = {}]
    /\ pc' = [pc EXCEPT ![t] = "done"]
    /\ status' = [status EXCEPT ![t] = IF adapter[t] THEN HttpStatus(err[t]) ELSE @]
    /\ UNCHANGED <<store, req, locals, err, history, nextId, adapter, tasks, retry, tables, codec>>

\* Two concurrent requests, each any call of either strategy.
Next ==
    \E t \in Pair :
        \/ \E mode \in Modes, s \in Ids, r \in Ids, a \in Amounts :
               Call(t, mode, s, r, a)
        \/ PessLockSender(t)
        \/ PessLockReceiver(t)
        \/ OptReadSender(t)
        \/ OptReadReceiver(t)
        \/ OptUpdateSender(t)
        \/ OptUpdateReceiver(t)
        \/ DeadlockAbort(t)
        \/ Commit(t)
        \/ Rollback(t)

Spec == Init /\ [][Next]_vars

\* Transfers run one at a time: a call begins only when no other call is in
\* progress, and runs to the end of its caller's transaction.
NoneInProgress == \A u \in Txns : pc[u] \in {"idle", "done"}

NextSolo ==
    \E t \in Pair :
        \/ \E mode \in Modes, s \in Ids, r \in Ids, a \in Amounts :
               NoneInProgress /\ Call(t, mode, s, r, a)
        \/ PessLockSender(t)
        \/ PessLockReceiver(t)
        \/ OptReadSender(t)
        \/ OptReadReceiver(t)
        \/ OptUpdateSender(t)
        \/ OptUpdateReceiver(t)
        \/ Commit(t)
        \/ Rollback(t)

SpecSolo == Init /\ [][NextSolo]_vars

\* Three concurrent optimistic transfers of one unit between existing,
\* distinct wallets.
UnitAmounts == {1}

NextOptimistic ==
    \E t \in Txns :
        \/ \E s \in Wallets, a \in UnitAmounts :
               \E r \in Wallets \ {s} : Call(t, "optimistic", s, r, a)
        \/ OptReadSender(t)
        \/ OptReadReceiver(t)
        \/ OptUpdateSender(t)
        \/ OptUpdateReceiver(t)
        \/ DeadlockAbort(t)
        \/ Commit(t)
        \/ Rollback(t)

SpecOptimistic == Init /\ [][NextOptimistic]_vars

\* What a session does once its pessimistic call has begun: each statement
\* is awaited and the coroutine goes on as soon as the store answers; the
\* store breaks a cycle of lock waits once it finds one.
Proceed(t) ==
    \/ PessLockSender(t)
    \/ PessLockReceiver(t)
    \/ DeadlockAbort(t)
    \/ Commit(t)
    \/ Rollback(t)

\* Two concurrent pessimistic transfers of one unit out of an existing
\* wallet, each session going on whenever it can.
NextPessimistic ==
    \E t \in Pair :
        \/ \E s \in Wallets, r \in Ids, a \in UnitAmounts :
               Call(t, "pessimistic", s, r, a)
        \/ Proceed(t)

SpecFair ==
    Init /\ [][NextPessimistic]_vars /\ \A t \in Pair : WF_vars(Proceed(t))

\* ------------------------------------------------------------ HTTP adapter
\* POST /transactions/transfer. TransferRequest requires amount > 0: a
\* request that fails the schema is answered 422 and the handler does not
\* run. Otherwise the handler opens the transaction (session.begin()) and
\* calls service.transfer_funds, which is the pessimistic engine; the
\* engine's amount check passes.
HttpTransfer(t, s, r, a) ==
    /\ pc[t] = "idle"
    /\ FirstIdle(t)
    /\ adapter' = [adapter EXCEPT ![t] = TRUE]
    /\ req' = [req EXCEPT ![t] = [mode |-> "pessimistic", sender |-> s,
                                  receiver |-> r, amount |-> a]]
    /\ pre' = [pre EXCEPT ![t] = [w \in Wallets |-> Row(w)]]
    /\ interfered' = [interfered EXCEPT ![t] = FALSE]
    /\ IF a <= 0
         THEN /\ pc' = [pc EXCEPT ![t] = "done"]
              /\ status' = [status EXCEPT ![t] = 422]
         ELSE /\ pc' = [pc EXCEPT ![t] = "lock_sender"]
              /\ status' = status
    /\ UNCHANGED <<store, lock, locals, writes, pending, err, initial, nextId, tasks, retry, tables, codec>>

\* The Transaction object the handler holds after the commit.
Committed(t) == CHOOSE x \in transactions : x.by = t

NoTransactionId == 0

\* send_transaction_email.delay(email=..., amount=str(transaction.amount),
\*                              status="SUCCESS")
EmailTask(t) ==
    [task |-> "send_transaction_email", by |-> t,
     transaction_id |-> NoTransactionId, sender |-> Missing, receiver |-> Missing,
     amount |-> Committed(t).amount, status |-> "SUCCESS"]

\* (mutant) the audit message carries the requester's wallet on both sides
AuditTaskSenderTwice(t) ==
    [task |-> "audit_log_transaction", by |-> t,
     transaction_id |-> Committed(t).id, sender |-> Committed(t).sender,
     receiver |-> Committed(t).sender, amount |-> Committed(t).amount,
     status |-> Committed(t).status]

\* audit_log_transaction.delay(transaction_id=str(transaction.id),
\*     data={sender_wallet_id, receiver_wallet_id, amount, status, created_at})
AuditTask(t) ==
    [task |-> "audit_log_transaction", by |-> t,
     transaction_id |-> Committed(t).id, sender |-> Committed(t).sender,
     receiver |-> Committed(t).receiver, amount |-> Committed(t).amount,
     status |-> Committed(t).status]

\* After the committed block: the notification message is sent to the
\* queue, or sending raises and the handler answers through its except chain.
EnqueueEmail(t) ==
    /\ pc[t] = "enqueue_email"
    /\ \/ /\ tasks' = Append(tasks, EmailTask(t))
          /\ pc' = [pc EXCEPT ![t] = "enqueue_audit"]
          /\ UNCHANGED <<err, status>>
       \/ /\ err' = [err EXCEPT ![t] = Unexpected]
          /\ status' = [status EXCEPT ![t] = HttpStatus(Unexpected)]
          /\ pc' = [pc EXCEPT ![t] = "done"]
          /\ tasks' = tasks
    /\ UNCHANGED <<store, lock, req, locals, writes, pending, history, nextId, adapter, retry, tables, codec>>

\* The audit message is sent and the handler returns the transaction
\* (status 200), or sending raises.
EnqueueAudit(t) ==
    /\ pc[t] = "enqueue_audit"
    /\ \/ /\ tasks' = Append(tasks, AuditTask(t))
          /\ status' = [status EXCEPT ![t] = 200]
          /\ err' = err
       \/ /\ err' = [err EXCEPT ![t] = Unexpected]
          /\ status' = [status EXCEPT ![t] = HttpStatus(Unexpected)]
          /\ tasks' = tasks
    /\ pc' = [pc EXCEPT ![t] = "done"]
    /\ UNCHANGED <<store, lock, req, locals, writes, pending, history, nextId, adapter, retry, tables, codec>>

\* Two concurrent HTTP transfer requests.
NextHttp ==
    \E t \in Pair :
        \/ \E s \in Ids, r \in Ids, a \in Amounts : HttpTransfer(t, s, r, a)
        \/ PessLockSender(t)
        \/ PessLockReceiver(t)
        \/ DeadlockAbort(t)
        \/ Refresh(t)
        \/ Commit(t)
        \/ Rollback(t)
        \/ EnqueueEmail(t)
        \/ EnqueueAudit(t)

SpecHttp == Init /\ [][NextHttp]_vars

\* Two concurrent callers of either engine that refresh the returned object
\* before their block ends, transferring between existing wallets.
NextCaller ==
    \E t \in Pair :
        \/ \E mode \in Modes, s \in Wallets, r \in Wallets, a \in Amounts \ {0} :
               Call(t, mode, s, r, a)
        \/ PessLockSender(t)
        \/ PessLockReceiver(t)
        \/ OptReadSender(t)
        \/ OptReadReceiver(t)
        \/ OptUpdateSender(t)
        \/ OptUpdateReceiver(t)
        \/ DeadlockAbort(t)
        \/ Refresh(t)
        \/ Commit(t)
        \/ Rollback(t)

SpecCaller == Init /\ [][NextCaller]_vars

\* ------------------------------------------------- the documented retry
\* max_retries of the module docstring's optimistic example
MaxRetries == 3

\* `except ConcurrencyError:` inside `for attempt in range(max_retries)`,
\* itself inside one `async with session.begin()`: unless this was the last
\* attempt the caller sleeps and calls transfer_funds_optimistic again, in
\* the same session and the same open transaction; the amount check passes
\* again. The session's Wallet objects are, depending on the session's
\* handling of objects it already holds, reloaded by the next reads
\* ("row"), kept as the first reads left them ("held"), or kept with the
\* values the session's own UPDATE statements set on them ("synchronized").
Retry(t) ==
    LET s == req[t].sender
        r == req[t].receiver
        amount == req[t].amount
    IN
    /\ pc[t] = "raised"
    /\ req[t].mode = "optimistic"
    /\ err[t].kind = "ConcurrencyConflict"
    /\ attempt[t] # MaxRetries - 1
    /\ attempt' = [attempt EXCEPT ![t] = @ + 1]
    /\ err' = [err EXCEPT ![t] = NoErr]
    /\ pc' = [pc EXCEPT ![t] = "reread_sender"]
    /\ \E v \in {"row", "held", "synchronized"} :
          /\ view' = [view EXCEPT ![t] = v]
          /\ IF v = "synchronized"
               THEN /\ sender_wallet' = [sender_wallet EXCEPT ![t] =
                          [balance |-> Debit(@.balance, amount),
                           version |-> @.version + 1]]
                    /\ receiver_wallet' = [receiver_wallet EXCEPT ![t] =
                          IF err[t].id = r
                            THEN [balance |-> Credit(@.balance, amount),
                                  version |-> @.version + 1]
                            ELSE @]
               ELSE UNCHANGED locals
    /\ UNCHANGED <<store, lock, req, writes, pending, history, nextId, http, tables, codec>>

\* The retried call's read of the sender.
RereadSender(t) ==
    /\ pc[t] = "reread_sender"
    /\ sender_wallet' = [sender_wallet EXCEPT ![t] =
           IF view[t] = "row" THEN RowSeenBy(t, req[t].sender) ELSE @]
    /\ pc' = [pc EXCEPT ![t] = "reread_receiver"]
    /\ UNCHANGED <<store, lock, req, receiver_wallet, writes, pending, err,
                   history, nextId, http, retry, tables, codec>>

\* The retried call's read of the receiver, then the funds check on the
\* remembered values.
RereadReceiver(t) ==
    LET s == req[t].sender
        r == req[t].receiver
        amount == req[t].amount
    IN
    /\ pc[t] = "reread_receiver"
    /\ receiver_wallet' = [receiver_wallet EXCEPT ![t] =
           IF view[t] = "row" THEN RowSeenBy(t, r) ELSE @]
    /\ IF Checks(s, r, amount, sender_wallet[t].balance) # NoErr
         THEN /\ pc' = [pc EXCEPT ![t] = "raised"]
              /\ err' = [err EXCEPT ![t] = Checks(s, r, amount, sender_wallet[t].balance)]
         ELSE /\ pc' = [pc EXCEPT ![t] = "retry_update_sender"]
              /\ err' = err
    /\ UNCHANGED <<store, lock, req, sender_wallet, writes, pending, history,
                   nextId, http, retry, tables, codec>>

\* The retried call's conditional update of the sender, in the transaction
\* that still holds what the earlier attempt wrote.
RetryUpdateSender(t) ==
    LET s == req[t].sender
        amount == req[t].amount
    IN
    /\ pc[t] = "retry_update_sender"
    /\ IF RowSeenBy(t, s).version = sender_wallet[t].version
         THEN /\ LockFree(t, s)
              /\ lock' = [lock EXCEPT ![s] = t]
              /\ writes' = [writes EXCEPT ![t][s] =
                     [balance |-> Debit(sender_wallet[t].balance, amount),
                      version |-> sender_wallet[t].version + 1]]
              /\ pc' = [pc EXCEPT ![t] = "retry_update_receiver"]
              /\ err' = err
         ELSE /\ pc' = [pc EXCEPT ![t] = "raised"]
              /\ err' = [err EXCEPT ![t] = ConcurrencyConflict(s)]
              /\ UNCHANGED <<lock, writes>>
    /\ UNCHANGED <<store, req, locals, pending, history, nextId, http, retry, tables, codec>>

\* The retried call's conditional update of the receiver, then
\* session.add(Transaction(...)) and the return.
RetryUpdateReceiver(t) ==
    LET s == req[t].sender
        r == req[t].receiver
        amount == req[t].amount
    IN
    /\ pc[t] = "retry_update_receiver"
    /\ IF RowSeenBy(t, r).version = receiver_wallet[t].version
         THEN /\ LockFree(t, r)
              /\ lock' = [lock EXCEPT ![r] = t]
              /\ writes' = [writes EXCEPT ![t][r] =
                     [balance |-> Credit(receiver_wallet[t].balance, amount),
                      version |-> receiver_wallet[t].version + 1]]
              /\ pending' = [pending EXCEPT ![t] =
                     pending[t] \cup {NewTransaction(s, r, amount)}]
              /\ pc' = [pc EXCEPT ![t] = "returned"]
              /\ err' = err
         ELSE /\ pc' = [pc EXCEPT ![t] = "raised"]
              /\ err' = [err EXCEPT ![t] = ConcurrencyConflict(r)]
              /\ UNCHANGED <<lock, writes, pending>>
    /\ UNCHANGED <<store, req, locals, history, nextId, http, retry, tables, codec>>

\* The exception leaves the retry loop (any error but ConcurrencyError, or
\* ConcurrencyError on the last attempt) and then the block.
Reraise(t) ==
    /\ err[t].kind = "ConcurrencyConflict" => attempt[t] = MaxRetries - 1
    /\ Rollback(t)

\* Two concurrent optimistic callers that follow the docstring's example,
\* transferring between existing, distinct wallets.
NextRetry ==
    \E t \in Pair :
        \/ \E s \in Wallets, a \in Amounts \ {0} :
               \E r \in Wallets \ {s} : Call(t, "optimistic", s, r, a)
        \/ OptReadSender(t)
        \/ OptReadReceiver(t)
        \/ OptUpdateSender(t)
        \/ OptUpdateReceiver(t)
        \/ Retry(t)
        \/ RereadSender(t)
        \/ RereadReceiver(t)
        \/ RetryUpdateSender(t)
        \/ RetryUpdateReceiver(t)
        \/ DeadlockAbort(t)
        \/ Commit(t)
        \/ Reraise(t)

SpecRetry == Init /\ [][NextRetry]_vars

\* ---------------------------------------------- the demo's retry loop
\* demo_optimistic_locking: `except ConcurrencyError` with attempts left. The
\* failed `async with session.begin()` has rolled back (changes dropped,
\* row locks released, the session's objects expired); the next iteration
\* opens a new transaction and calls the engine again, which reads the
\* committed rows afresh.
DemoRetry(t) ==
    /\ pc[t] = "raised"
    /\ req[t].mode = "optimistic"
    /\ err[t].kind = "ConcurrencyConflict"
    /\ attempt[t] # MaxRetries - 1
    /\ lock' = Release(t)
    /\ writes' = [writes EXCEPT ![t] = NoWrites]
    /\ pending' = [pending EXCEPT ![t] = {}]
    /\ attempt' = [attempt EXCEPT ![t] = @ + 1]
    /\ err' = [err EXCEPT ![t] = NoErr]
    /\ pre' = [pre EXCEPT ![t] = [w \in Wallets |-> Row(w)]]
    /\ interfered' = [interfered EXCEPT ![t] = FALSE]
    /\ pc' = [pc EXCEPT ![t] = "read_sender"]
    /\ UNCHANGED <<store, req, locals, initial, nextId, http, view, tables, codec>>

\* Two concurrent optimistic callers that follow the demo's loop,
\* transferring between existing, distinct wallets.
NextDemo ==
    \E t \in Pair :
        \/ \E s \in Wallets, a \in Amounts \ {0} :
               \E r \in Wallets \ {s} : Call(t, "optimistic", s, r, a)
        \/ OptReadSender(t)
        \/ OptReadReceiver(t)
        \/ OptUpdateSender(t)
        \/ OptUpdateReceiver(t)
        \/ DeadlockAbort(t)
        \/ DemoRetry(t)
        \/ Commit(t)
        \/ Reraise(t)

SpecDemo == Init /\ [][NextDemo]_vars

\* ------------------------------------------------- the tables' constraints
\* The wallets table: the wallets that exist from the start, each with its
\* owner and its committed balance, and the rows inserted since.
WalletsTable ==
    {[id |-> w, user_id |-> Owner[w], balance |-> balance[w]] : w \in Wallets}
        \cup wallet_rows

WalletIds == {x.id : x \in WalletsTable}

\* A session adds a User and commits (users.id is the primary key).
InsertUser(u) ==
    /\ u \notin users
    /\ users' = users \cup {u}
    /\ last' = [table |-> "users", row |-> [id |-> u], violated |-> {}]
    /\ UNCHANGED <<store, lock, pc, req, locals, writes, pending, err, history,
                   nextId, http, retry, wallet_rows, codec>>

\* (mutant) wallets.user_id without unique=True
WalletViolationsNoUnique(id, u) ==
    {c \in {"wallets_pkey", "fk_wallets_user_id"} :
        \/ c = "wallets_pkey" /\ id \in WalletIds
        \/ c = "fk_wallets_user_id" /\ u \notin users}

\* The constraints of the wallets table that a new row (id, user_id) breaks:
\* the primary key, the foreign key to users.id, the uniqueness of user_id.
WalletViolations(id, u) ==
    {c \in {"wallets_pkey", "fk_wallets_user_id", "uq_wallets_user_id"} :
        \/ c = "wallets_pkey" /\ id \in WalletIds
        \/ c = "fk_wallets_user_id" /\ u \notin users
        \/ c = "uq_wallets_user_id" /\ \E x \in WalletsTable : x.user_id = u}

\* A session adds Wallet(id, user_id, balance) and commits: the row is
\* inserted, or the commit raises IntegrityError and the session rolls back.
InsertWallet(id, u, b) ==
    LET row == [id |-> id, user_id |-> u, balance |-> b] IN
    /\ wallet_rows' = IF WalletViolations(id, u) = {}
                        THEN wallet_rows \cup {row} ELSE wallet_rows
    /\ last' = [table |-> "wallets", row |-> row,
                violated |-> WalletViolations(id, u)]
    /\ UNCHANGED <<store, lock, pc, req, locals, writes, pending, err, history,
                   nextId, http, retry, users, codec>>

\* (mutant) receiver_wallet_id without its ForeignKey
TransactionViolationsNoReceiverKey(id, s, r) ==
    {c \in {"transactions_pkey", "fk_transactions_sender_wallet_id"} :
        \/ c = "transactions_pkey" /\ \E x \in transactions : x.id = id
        \/ c = "fk_transactions_sender_wallet_id" /\ s \notin WalletIds}

\* The constraints of the transactions table that a new row breaks: the
\* primary key and the two foreign keys to wallets.id.
TransactionViolations(id, s, r) ==
    {c \in {"transactions_pkey", "fk_transactions_sender_wallet_id",
            "fk_transactions_receiver_wallet_id"} :
        \/ c = "transactions_pkey" /\ \E x \in transactions : x.id = id
        \/ c = "fk_transactions_sender_wallet_id" /\ s \notin WalletIds
        \/ c = "fk_transactions_receiver_wallet_id" /\ r \notin WalletIds}

\* Session t adds Transaction(id, sender_wallet_id, receiver_wallet_id,
\* amount, status) and commits: inserted, or IntegrityError and rollback.
InsertTransaction(t, id, s, r, a, st) ==
    LET row == [id |-> id, by |-> t, sender |-> s, receiver |-> r,
                amount |-> a, status |-> st] IN
    /\ transactions' = IF TransactionViolations(id, s, r) = {}
                         THEN transactions \cup {row} ELSE transactions
    /\ last' = [table |-> "transactions", row |-> row,
                violated |-> TransactionViolations(id, s, r)]
    /\ UNCHANGED <<balance, version, lock, pc, req, locals, writes, pending, err,
                   history, nextId, http, retry, users, wallet_rows, codec>>

\* One session creating users and wallets, for owners with and without a
\* wallet, under ids in use and ids not in use.
NextWallets ==
    \/ \E u \in Users : InsertUser(u)
    \/ \E id \in NewWalletIds \cup {"A"}, u \in Users, b \in Amounts :
          InsertWallet(id, u, b)

SpecWallets == Init /\ [][NextWallets]_vars

\* One session creating users, wallets and Transaction rows directly, with
\* references that exist, that do not exist yet, and that never exist.
NextTables ==
    \/ \E u \in Users : InsertUser(u)
    \/ \E u \in Users : InsertWallet("D", u, 0)
    \/ \E id \in TransactionIds, s \in {"A", "D", Missing}, r \in {"D", Missing},
          st \in {"PENDING", "COMPLETED"} :
            InsertTransaction(Contexts[1], id, s, r, 1, st)

SpecTables == Init /\ [][NextTables]_vars

\* ------------------------------------------------------ Decimal round trips
RECURSIVE Pow10(_)
Pow10(n) == IF n = 0 THEN 1 ELSE 10 * Pow10(n - 1)

DigitChars == <<"0", "1", "2", "3", "4", "5", "6", "7", "8", "9">>

\* The decimal digits of a natural number, as a string of characters.
RECURSIVE Digits(_)
Digits(n) ==
    IF n < 10 THEN <<DigitChars[n + 1]>>
    ELSE Digits(n \div 10) \o <<DigitChars[(n % 10) + 1]>>

Zeros(n) == [i \in 1..n |-> "0"]

\* int(): the number a string of digits spells.
RECURSIVE Number(_)
Number(str) ==
    IF str = <<>> THEN 0
    ELSE 10 * Number(SubSeq(str, 1, Len(str) - 1))
           + (CHOOSE k \in 0..9 : DigitChars[k + 1] = str[Len(str)])

\* Rounding a Decimal to the exponent e, halves upwards (exact when the
\* value has no digit below 10^e).
Quantize(d, e) ==
    IF d.exp >= e THEN [coef |-> d.coef * Pow10(d.exp - e), exp |-> e]
    ELSE LET unit == Pow10(e - d.exp) IN
         [coef |-> (d.coef \div unit) + (IF 2 * (d.coef % unit) >= unit THEN 1 ELSE 0),
          exp |-> e]

\* Decimal.__eq__: equality of the values, whatever the exponents.
DecimalEq(a, b) ==
    LET e == IF a.exp < b.exp THEN a.exp ELSE b.exp IN
    a.coef * Pow10(a.exp - e) = b.coef * Pow10(b.exp - e)

\* (mutant) the serializer formats the amount with two places: f"{amount:.2f}"
DecimalStrTwoPlaces(d) ==
    LET int == Digits(Quantize(d, -2).coef)
        n == Len(int)
    IN IF n <= 2 THEN <<"0", ".">> \o Zeros(2 - n) \o int
       ELSE SubSeq(int, 1, n - 2) \o <<".">> \o SubSeq(int, n - 1, n)

\* str(Decimal): plain notation when the exponent is not positive and the
\* value not below 1E-6, else scientific notation with one leading digit.
DecimalStr(d) ==
    LET int == Digits(d.coef)
        n == Len(int)
        leftdigits == d.exp + n
        dotplace == IF d.exp <= 0 /\ leftdigits > -6 THEN leftdigits ELSE 1
        intpart == IF dotplace <= 0 THEN <<"0">>
                   ELSE IF dotplace >= n THEN int \o Zeros(dotplace - n)
                   ELSE SubSeq(int, 1, dotplace)
        fracpart == IF dotplace <= 0 THEN <<".">> \o Zeros(-dotplace) \o int
                    ELSE IF dotplace >= n THEN <<>>
                    ELSE <<".">> \o SubSeq(int, dotplace + 1, n)
        e == leftdigits - dotplace
        exppart == IF e = 0 THEN <<>>
                   ELSE IF e > 0 THEN <<"E", "+">> \o Digits(e)
                   ELSE <<"E", "-">> \o Digits(-e)
    IN intpart \o fracpart \o exppart

\* Decimal(str): digits, an optional fraction and an optional exponent; the
\* coefficient is all the digits, the exponent the written one less the
\* length of the fraction.
ParseDecimal(str) ==
    LET At(c) == {i \in 1..Len(str) : str[i] = c}
        ePos == IF At("E") = {} THEN Len(str) + 1 ELSE CHOOSE i \in At("E") : TRUE
        mantissa == SubSeq(str, 1, ePos - 1)
        written == IF ePos > Len(str) THEN 0
                   ELSE IF str[ePos + 1] = "-"
                          THEN 0 - Number(SubSeq(str, ePos + 2, Len(str)))
                   ELSE IF str[ePos + 1] = "+"
                          THEN Number(SubSeq(str, ePos + 2, Len(str)))
                   ELSE Number(SubSeq(str, ePos + 1, Len(str)))
        dots == {i \in 1..Len(mantissa) : mantissa[i] = "."}
        dot == IF dots = {} THEN Len(mantissa) + 1 ELSE CHOOSE i \in dots : TRUE
        intpart == SubSeq(mantissa, 1, dot - 1)
        fracpart == SubSeq(mantissa, dot + 1, Len(mantissa))
    IN [coef |-> Number(intpart \o fracpart), exp |-> written - Len(fracpart)]

\* The Decimals with up to Scale decimal places the checks run over.
Decimals == [coef : 0..MaxCoefficient, exp : (0 - Scale)..MaxExponent]

\* TransactionRead.model_validate(transaction) / WalletRead.model_validate:
\* the schema object holds the ORM object's Decimal.
ModelValidate(d) ==
    /\ codec.phase = "none"
    /\ codec' = [codec EXCEPT !.phase = "validated", !.original = d]
    /\ UNCHANGED <<store, lock, pc, req, locals, writes, pending, err, history,
                   nextId, http, retry, tables>>

\* model_dump_json(): serialize_amount / serialize_balance return str(value),
\* which goes into the document as a JSON string.
ModelDumpJson ==
    /\ codec.phase = "validated"
    /\ codec' = [codec EXCEPT !.phase = "dumped", !.json = DecimalStr(codec.original)]
    /\ UNCHANGED <<store, lock, pc, req, locals, writes, pending, err, history,
                   nextId, http, retry, tables>>

\* model_validate_json(json_data): the Decimal field is built from the string.
ModelValidateJson ==
    /\ codec.phase = "dumped"
    /\ codec' = [codec EXCEPT !.phase = "restored", !.restored = ParseDecimal(codec.json)]
    /\ UNCHANGED <<store, lock, pc, req, locals, writes, pending, err, history,
                   nextId, http, retry, tables>>

\* A row with the value in a Numeric(18, 4) column is committed: the store
\* keeps the value at scale 4.
StoreNumeric(d) ==
    /\ codec.phase = "none"
    /\ codec' = [codec EXCEPT !.phase = "stored", !.original = d,
                              !.stored = Quantize(d, 0 - Scale)]
    /\ UNCHANGED <<store, lock, pc, req, locals, writes, pending, err, history,
                   nextId, http, retry, tables>>

\* The row is read back (session.get after expire_all): the driver hands the
\* stored numeric over as a Decimal.
ReadNumeric ==
    /\ codec.phase = "stored"
    /\ codec' = [codec EXCEPT !.phase = "retrieved", !.retrieved = codec.stored]
    /\ UNCHANGED <<store, lock, pc, req, locals, writes, pending, err, history,
                   nextId, http, retry, tables>>

\* One value taken through JSON and back, or into the store and back.
NextDecimal ==
    \/ \E d \in Decimals : ModelValidate(d)
    \/ ModelDumpJson
    \/ ModelValidateJson
    \/ \E d \in Decimals : StoreNumeric(d)
    \/ ReadNumeric

SpecDecimal == Init /\ [][NextDecimal]_vars

\* ================================================================== claims
Done(t) == pc[t] = "done"
Succeeded(t) == Done(t) /\ err[t] = NoErr

\* The records a call has committed.
RecordsBy(t) == {x \in transactions : x.by = t}

\* C1. Conservation: a committed successful transfer of amount A > 0 between
\* two distinct existing wallets, with no other session committing in the
\* meantime, leaves the sender at its balance before the call minus A and
\* the receiver at its balance before the call plus A, so the sum of the two
\* is what it was.
C1_Conservation ==
    \A t \in Txns :
        (Succeeded(t) /\ ~interfered[t]) =>
            LET s == req[t].sender
                r == req[t].receiver
                a == req[t].amount
            IN
            /\ a > 0 /\ s \in Wallets /\ r \in Wallets /\ s # r
            /\ pre[t][s].balance >= a
            /\ balance[s] = pre[t][s].balance - a
            /\ balance[r] = pre[t][r].balance + a
            /\ balance[s] + balance[r] = pre[t][s].balance + pre[t][r].balance
            /\ \A w \in Wallets \ {s, r} : balance[w] = pre[t][w].balance

\* C1 witness: an optimistic transfer has committed undisturbed after a
\* pessimistic one committed.
C1_Witness ==
    \E t \in Txns :
        /\ Succeeded(t) /\ ~interfered[t] /\ req[t].mode = "optimistic"
        /\ \E u \in Txns \ {t} : Succeeded(u) /\ req[u].mode = "pessimistic"

\* One of the five business failures applies to the request of t, judged on
\* the wallets as they were when the call began.
BusinessFailure(t) ==
    LET s == req[t].sender
        r == req[t].receiver
    IN
    \/ req[t].amount <= 0
    \/ s \notin Wallets
    \/ r \notin Wallets
    \/ s = r
    \/ pre[t][s].balance < req[t].amount

\* C2. Atomicity on failure: a call whose request is one of the five
\* business failures, once it has ended and its caller has finished the
\* transaction, with no other session committing in the meantime, has failed
\* and leaves every wallet's balance and version as before the call and no
\* Transfer record of its own, under either strategy.
C2_AtomicityOnFailure ==
    \A t \in Txns :
        (Done(t) /\ BusinessFailure(t) /\ ~interfered[t]) =>
            /\ err[t] # NoErr
            /\ \A w \in Wallets : Row(w) = pre[t][w]
            /\ RecordsBy(t) = {}
            /\ writes[t] = NoWrites /\ pending[t] = {}

\* C2 witness: an insufficient-funds failure of the optimistic engine and a
\* missing-receiver failure of the pessimistic engine have both been rolled back.
C2_Witness ==
    \E t \in Txns :
        /\ Done(t) /\ ~interfered[t] /\ req[t].mode = "optimistic"
        /\ err[t].kind = "InsufficientFunds"
        /\ \E u \in Txns \ {t} :
               /\ Done(u) /\ ~interfered[u] /\ req[u].mode = "pessimistic"
               /\ err[u] = AccountNotFound(req[u].receiver)
               /\ req[u].sender \in Wallets

Pessimistic(t) == req[t].mode = "pessimistic"
Optimistic(t) == req[t].mode = "optimistic"

\* C3. Pessimistic deadlock freedom: no reachable state has two pessimistic
\* transfers each waiting for a row lock the other holds (the pair A->B,
\* B->A included).
C3_NoPessimisticDeadlock ==
    \A t, u \in Txns :
        (t # u /\ Pessimistic(t) /\ Pessimistic(u)) =>
            ~(WaitsFor(t, u) /\ WaitsFor(u, t))

\* Two pessimistic transfers out of the same existing wallet into two other
\* existing wallets, whose amounts together fit the sender's initial balance.
SameSenderPair(t, u) ==
    /\ t # u /\ Pessimistic(t) /\ Pessimistic(u)
    /\ req[t].sender = req[u].sender
    /\ req[t].sender \in Wallets
    /\ req[t].receiver \in Wallets \ {req[t].sender}
    /\ req[u].receiver \in Wallets \ {req[t].sender, req[t].receiver}
    /\ req[t].amount > 0 /\ req[u].amount > 0
    /\ initial[req[t].sender] >= req[t].amount + req[u].amount

\* C4. Pessimistic no lost update: two concurrent pessimistic transfers A->B
\* of a1 and A->C of a2 with A's balance >= a1 + a2 both succeed in every
\* interleaving; after both commits A = A0 - a1 - a2, B = B0 + a1,
\* C = C0 + a2, the total is unchanged and exactly two records name A as sender.
C4_PessimisticNoLostUpdate ==
    \A t, u \in Txns :
        (SameSenderPair(t, u) /\ Done(t) /\ Done(u)) =>
            LET a == req[t].sender
                b == req[t].receiver
                c == req[u].receiver
            IN
            /\ err[t] = NoErr /\ err[u] = NoErr
            /\ balance[a] = initial[a] - req[t].amount - req[u].amount
            /\ balance[b] = initial[b] + req[t].amount
            /\ balance[c] = initial[c] + req[u].amount
            /\ balance[a] + balance[b] + balance[c]
                   = initial[a] + initial[b] + initial[c]
            /\ Cardinality({x \in transactions : x.sender = a}) = 2

\* C4 witness: both transfers are done, with different amounts, and the one
\* that began before the other's commit read the sender after that commit.
C4_Witness ==
    \E t, u \in Txns :
        /\ SameSenderPair(t, u) /\ Done(t) /\ Done(u)
        /\ req[t].amount # req[u].amount
        /\ sender_wallet[u].balance = initial[req[t].sender] - req[t].amount
        /\ pre[u][req[u].sender].balance = initial[req[u].sender]

\* The balance of w that the committed Transfer records account for.
RECURSIVE Net(_, _)
Net(w, records) ==
    IF records = {} THEN 0
    ELSE LET x == CHOOSE y \in records : TRUE
             d == (IF x.receiver = w THEN x.amount ELSE 0)
                    - (IF x.sender = w THEN x.amount ELSE 0)
         IN d + Net(w, records \ {x})

Ledger(w) == initial[w] + Net(w, transactions)

\* t runs its conditional update of the sender (resp. receiver) in this step.
UpdatesSender(t) == pc[t] = "update_sender" /\ pc'[t] # "update_sender"
UpdatesReceiver(t) == pc[t] = "update_receiver" /\ pc'[t] # "update_receiver"

\* C5. Optimistic conflict detection: when the committed version of wallet X
\* differs from the version an optimistic transfer read, its conditional
\* update of X changes nothing and the call raises ConcurrencyConflict
\* naming X (sender or receiver); the rollback that follows leaves the
\* committed wallets as the concurrent writer left them.
C5_ConflictDetected ==
    [][\A t \in Txns :
        /\ (UpdatesSender(t) /\ version[req[t].sender] # sender_wallet[t].version) =>
              /\ err'[t] = ConcurrencyConflict(req[t].sender)
              /\ pc'[t] = "raised"
              /\ writes'[t] = writes[t] /\ pending'[t] = pending[t]
        /\ (UpdatesReceiver(t) /\ version[req[t].receiver] # receiver_wallet[t].version) =>
              /\ err'[t] = ConcurrencyConflict(req[t].receiver)
              /\ pc'[t] = "raised"
              /\ writes'[t] = writes[t] /\ pending'[t] = pending[t]
        /\ (err[t].kind = "ConcurrencyConflict" /\ pc[t] = "raised" /\ pc'[t] = "done") =>
              /\ balance' = balance /\ version' = version
              /\ transactions' = transactions
              /\ balance'[err[t].id] = Ledger(err[t].id)
              /\ RecordsBy(t)' = {}
      ]_vars

\* C5 witness: an optimistic transfer whose receiver was changed by a
\* committed optimistic transfer after it read it has ended with
\* ConcurrencyConflict naming the receiver, its sender update rolled back.
C5_Witness ==
    \E t \in Txns :
        /\ Done(t) /\ Optimistic(t)
        /\ err[t] = ConcurrencyConflict(req[t].receiver)
        /\ version[req[t].receiver] = receiver_wallet[t].version + 1
        /\ \E u \in Txns \ {t} : Succeeded(u)
        /\ Row(req[t].sender) = pre[t][req[t].sender]

\* The wallets an optimistic transfer reads, and the version it captured.
Touches(t, x) == req[t] # NoReq /\ x \in {req[t].sender, req[t].receiver}
CapturedVersion(t, x) ==
    IF x = req[t].sender THEN sender_wallet[t].version
    ELSE receiver_wallet[t].version

\* An optimistic transfer that reached its conditional updates and ended.
Racer(t) ==
    /\ Done(t) /\ Optimistic(t)
    /\ err[t].kind \in {"None", "ConcurrencyConflict", "DeadlockDetected"}

\* The ended racers that captured the same version of x as t did.
RacersWith(t, x) ==
    {u \in Txns : Racer(u) /\ Touches(u, x)
                  /\ CapturedVersion(u, x) = CapturedVersion(t, x)}

Commits(t) == pc[t] = "returned" /\ pc'[t] = "done"
RollsBack(t) == pc[t] = "raised" /\ pc'[t] = "done"

C7_NonNegativeBalance == \A w \in Wallets : balance[w] >= 0

\* C7 witness: a committed transfer has emptied a wallet, and a concurrent
\* transfer out of the same wallet, affordable when it was called, has been
\* refused for insufficient funds.
C7_Witness ==
    \E t, u \in Txns :
        /\ t # u /\ Succeeded(t) /\ Done(u)
        /\ req[t].sender = req[u].sender
        /\ balance[req[t].sender] = 0
        /\ pre[u][req[u].sender].balance >= req[u].amount
        /\ err[u].kind = "InsufficientFunds"

\* C8 (as stated). Version discipline: a wallet's version starts at 1, never
\* decreases, changes only by +1, and every committed change of the wallet's
\* balance, under either strategy, comes with such an increment.
C8_VersionDiscipline ==
    [][\A w \in Wallets :
        /\ version'[w] \in {version[w], version[w] + 1}
        /\ balance'[w] # balance[w] => version'[w] = version[w] + 1
      ]_vars

\* The outcome the fixed validation order gives request q on the rows given.
ExpectedOutcome(q, rows) ==
    IF q.amount <= 0 THEN InvalidAmount
    ELSE IF q.sender \notin Wallets THEN AccountNotFound(q.sender)
    ELSE IF q.receiver \notin Wallets THEN AccountNotFound(q.receiver)
    ELSE IF q.sender = q.receiver THEN SelfTransfer
    ELSE IF rows[q.sender].balance < q.amount
      THEN InsufficientFunds(q.sender, q.amount, rows[q.sender].balance)
    ELSE NoErr

\* C9. Validation order, first failure wins: a call that ended without the
\* store aborting it, and with no other session committing in the
\* meantime, returns the error of the first failing check in the order
\* amount > 0, sender exists, receiver exists, sender # receiver, sender
\* balance >= amount (or succeeds when none fails), under either strategy.
\* The four named cases hold for every ended call: amount <= 0 with a
\* missing sender gives InvalidAmount; sender = receiver missing, and both
\* missing, give AccountNotFound for the sender; sender = receiver with an
\* amount above the balance gives SelfTransfer.
C9_ValidationOrder ==
    \A t \in Txns :
        Done(t) =>
            LET q == req[t] IN
            /\ (~interfered[t] /\ err[t].kind # "DeadlockDetected")
                   => err[t] = ExpectedOutcome(q, pre[t])
            /\ (q.amount <= 0 /\ q.sender \notin Wallets)
                   => err[t] = InvalidAmount
            /\ (q.amount > 0 /\ q.sender \notin Wallets)
                   => err[t] = AccountNotFound(q.sender)
            /\ (q.amount > 0 /\ q.sender = q.receiver /\ q.sender \in Wallets)
                   => err[t] = SelfTransfer

\* C9 witness: one call with sender = receiver and an amount above the
\* wallet's balance has ended with SelfTransfer, and a call of the other
\* strategy with amount <= 0 and a missing sender with InvalidAmount.
C9_Witness ==
    \E t, u \in Txns :
        /\ Done(t) /\ Done(u) /\ req[t].mode # req[u].mode
        /\ req[t].sender = req[t].receiver /\ req[t].sender \in Wallets
        /\ req[t].amount > balance[req[t].sender]
        /\ err[t] = SelfTransfer
        /\ req[u].amount <= 0 /\ req[u].sender \notin Wallets
        /\ err[u] = InvalidAmount

\* C10 (as stated). Pessimistic raises no conflict: a pessimistic transfer
\* that has ended, under any interleaving, ended in success or in one of
\* InvalidAmount, AccountNotFound, SelfTransfer, InsufficientFunds, and one
\* that is valid against the rows it locked has succeeded.
C10_PessimisticOutcomes ==
    \A t \in Txns :
        (Pessimistic(t) /\ pc[t] \in {"raised", "returned", "done"}) =>
            /\ err[t].kind \in {"None", "InvalidAmount", "AccountNotFound",
                                "SelfTransfer", "InsufficientFunds"}
            /\ ( /\ sender_wallet[t] # NoRow /\ receiver_wallet[t] # NoRow
                 /\ req[t].sender # req[t].receiver
                 /\ sender_wallet[t].balance >= req[t].amount )
               => err[t] = NoErr

\* C11 (as stated). Optimistic never blocks: no optimistic transfer ever
\* waits for a row lock another transaction holds, and none is ever the
\* victim of a deadlock (the pair A->B, B->A included).
C11_OptimisticNeverBlocks ==
    \A t \in Txns :
        Optimistic(t) => (~Waiting(t) /\ err[t].kind # "DeadlockDetected")

\* (C11) two optimistic transfers each wait for a row the other has updated.
C11_OptimisticDeadlock ==
    \E t, u \in Txns :
        /\ t # u /\ Optimistic(t) /\ Optimistic(u)
        /\ WaitsFor(t, u) /\ WaitsFor(u, t)

\* An in-flight pessimistic transfer that is past its locking read of w.
PastLockingRead(t, w) ==
    /\ Pessimistic(t) /\ pc[t] \notin {"idle", "done"}
    /\ \/ w = req[t].sender /\ sender_wallet[t] # NoRow
       \/ w = req[t].receiver /\ receiver_wallet[t] # NoRow

\* C12. Per-account mutual exclusion under the pessimistic strategy: an
\* in-flight pessimistic transfer past its locking read of wallet w holds
\* w's lock; while it does, no other pessimistic transfer is or gets past
\* its locking read of w, and the lock leaves the holder only when the
\* holder's transaction commits or rolls back.
C12_PessimisticMutualExclusion ==
    [][\A w \in Wallets, t \in Txns :
        /\ PastLockingRead(t, w) => lock[w] = t
        /\ (Pessimistic(t) /\ lock[w] = t) =>
              /\ lock'[w] # t =>
                    (pc[t] \in {"returned", "raised"} /\ pc'[t] = "done")
              /\ \A u \in Txns \ {t} :
                    ~PastLockingRead(u, w) /\ ~PastLockingRead(u, w)'
      ]_vars

\* C12 witness: a pessimistic transfer holds both its locks and another
\* pessimistic transfer naming one of those wallets waits at its locking
\* read of it.
C12_Witness ==
    \E t, u \in Txns :
        /\ t # u /\ Pessimistic(t) /\ Pessimistic(u)
        /\ pc[t] = "returned" /\ WaitsFor(u, t)
        /\ PastLockingRead(t, Wants(u)) /\ ~PastLockingRead(u, Wants(u))

\* C13. Each successful transfer, under either strategy, appends exactly one
\* Transfer record: at its commit the set of records grows by exactly one
\* record, with status COMPLETED and the amount, sender and receiver of the
\* request; afterwards the call has exactly that one record.
C13_OneCompletedRecord ==
    [][\A t \in Txns :
        /\ Commits(t) =>
              /\ Cardinality(transactions') = Cardinality(transactions) + 1
              /\ \E x \in transactions' \ transactions :
                    /\ transactions' = transactions \cup {x}
                    /\ x.status = "COMPLETED"
                    /\ x.amount = req[t].amount
                    /\ x.sender = req[t].sender
                    /\ x.receiver = req[t].receiver
              /\ Cardinality(RecordsBy(t)') = 1
        /\ Succeeded(t) => Cardinality(RecordsBy(t)) = 1
      ]_vars

\* C13 witness: a pessimistic and an optimistic transfer have both
\* succeeded and the table holds their two records.
C13_Witness ==
    \E t, u \in Txns :
        /\ Succeeded(t) /\ Pessimistic(t) /\ Succeeded(u) /\ Optimistic(u)
        /\ Cardinality(transactions) = 2
        /\ \A x \in transactions : x.status = "COMPLETED"

\* C14. Transfer records are write-once: no step of any operation, successful
\* or failed, under either strategy, removes or changes a committed record
\* (the set of committed records only grows), no two records share an id,
\* and every record has status COMPLETED and an amount above 0.
C14_RecordsWriteOnce ==
    [][/\ transactions \subseteq transactions'
       /\ \A x, y \in transactions' : x.id = y.id => x = y
       /\ \A x \in transactions' : x.status = "COMPLETED" /\ x.amount > 0
      ]_vars

\* C14 witness: a call that began after a record was committed has failed and
\* been rolled back, and the record is still there.
C14_Witness ==
    \E t, u \in Txns :
        /\ t # u /\ Succeeded(t) /\ Done(u) /\ err[u] # NoErr
        /\ pre[u][req[t].sender].balance = initial[req[t].sender] - req[t].amount
        /\ \E x \in transactions :
              /\ x.by = t /\ x.sender = req[t].sender /\ x.amount = req[t].amount
              /\ transactions = {x}

\* The engine has returned to t's caller, whose transaction is still open.
EngineReturned(t) == pc[t] \in {"returned", "refreshed"}

\* C15. The engine never commits or rolls back itself: the committed wallets
\* and records change only in the step in which a caller commits; while the
\* engine has returned and its caller has not committed, the transfer's
\* changes are held by the session only (no record of the call is committed,
\* and the committed wallets are as when the call began unless another
\* session committed); and when the caller rolls back instead, both wallets'
\* balance and version and the set of records are as before the call.
C15_CallerEndsTransaction ==
    [][/\ store' # store =>
             \E t \in Txns : EngineReturned(t) /\ ~EngineReturned(t)'
                              /\ pc'[t] # "raised"
       /\ \A t \in Txns :
             /\ EngineReturned(t) =>
                   /\ RecordsBy(t) = {} /\ HasWrites(t) /\ pending[t] # {}
                   /\ ~interfered[t] => \A w \in Wallets : Row(w) = pre[t][w]
             /\ (RollsBack(t) /\ err[t] = Unexpected) =>
                   /\ store' = store
                   /\ RecordsBy(t)' = {} /\ ~HasWrites(t)' /\ pending'[t] = {}
                   /\ ~interfered[t] => \A w \in Wallets : Row(w)' = pre[t][w]
      ]_vars

\* C15 witness: a pessimistic and an optimistic call both returned from the
\* engine, their callers rolled back, and the store is as it began.
C15_Witness ==
    \E t, u \in Txns :
        /\ Pessimistic(t) /\ Optimistic(u)
        /\ Done(t) /\ Done(u) /\ err[t] = Unexpected /\ err[u] = Unexpected
        /\ sender_wallet[t].balance >= req[t].amount
        /\ transactions = {} /\ balance = initial
        /\ \A w \in Wallets : version[w] = InitVersion

\* The task messages sent for t's request.
TasksBy(t) == {i \in DOMAIN tasks : tasks[i].by = t}

\* t's request failed: it was answered without its transfer being committed.
RequestFailed(t) == adapter[t] /\ Done(t) /\ RecordsBy(t) = {}

\* C16. Commit-before-enqueue in the HTTP adapter: a task message is sent
\* only by a request whose transaction has committed (its Transfer record
\* is in the table, its session holds no uncommitted change and no row
\* lock), and a request whose transfer failed, whether by NotFound,
\* Validation, InsufficientFunds or any other error raised in the block,
\* has no task message, then or later.
C16_CommitBeforeEnqueue ==
    [][/\ \A t \in Txns :
             /\ TasksBy(t)' # TasksBy(t) =>
                   /\ RecordsBy(t) # {} /\ ~HasWrites(t) /\ pending[t] = {}
                   /\ \A w \in Wallets : lock[w] # t
             /\ TasksBy(t)' # {} => RecordsBy(t)' # {}
             /\ RequestFailed(t)' => TasksBy(t)' = {}
             /\ (adapter[t] /\ RollsBack(t)) => TasksBy(t)' = {}
      ]_vars

\* C16 witness: one request committed and sent both its messages; another
\* one failed in the engine, was rolled back, and sent none.
C16_Witness ==
    \E t, u \in Txns :
        /\ t # u /\ status[t] = 200 /\ Cardinality(TasksBy(t)) = 2
        /\ RequestFailed(u) /\ status[u] \in {400, 404}
        /\ TasksBy(u) = {} /\ Len(tasks) = 2

\* C17 (as stated). Whenever the adapter answers 500, the request's storage
\* transaction was rolled back: no Transfer record of that request is
\* committed and the wallets it names carry no change of its own.
C17_ServerErrorPersistsNothing ==
    \A t \in Txns :
        (adapter[t] /\ status[t] = 500) =>
            /\ RecordsBy(t) = {}
            /\ ~interfered[t] => \A w \in Wallets : Row(w) = pre[t][w]

\* C18 (as stated). The adapter maps a ConcurrencyConflict raised by the
\* engine to status 409: for every request the handler serves, its except
\* chain answers 409 to a ConcurrencyConflict naming either wallet of the
\* request.
C18_ConflictAnswered409 ==
    \A t \in Txns :
        (adapter[t] /\ pc[t] # "idle") =>
            /\ HttpStatus(ConcurrencyConflict(req[t].sender)) = 409
            /\ HttpStatus(ConcurrencyConflict(req[t].receiver)) = 409

\* C19. The adapter maps the failures raised inside its block to statuses:
\* AccountNotFound -> 404; InvalidAmount and SelfTransfer -> 400;
\* InsufficientFunds -> 400; any other exception -> 500; and in every case
\* the answer comes with the transaction rolled back: the committed wallets
\* and records are untouched, the session's changes are dropped and its
\* locks released, and no record of the request exists.
C19_FailureStatuses ==
    [][\A t \in Txns :
        /\ HttpStatus(InvalidAmount) = 400
        /\ (adapter[t] /\ RollsBack(t)) =>
              /\ err[t].kind = "AccountNotFound" => status'[t] = 404
              /\ err[t].kind \in {"InvalidAmount", "SelfTransfer"} => status'[t] = 400
              /\ err[t].kind = "InsufficientFunds" => status'[t] = 400
              /\ err[t].kind \in {"DeadlockDetected", "Unexpected",
                                  "ConcurrencyConflict"} => status'[t] = 500
              /\ status'[t] # 0
              /\ store' = store
              /\ ~HasWrites(t)' /\ pending'[t] = {}
              /\ \A w \in Wallets : lock'[w] # t
              /\ RecordsBy(t)' = {}
        /\ status'[t] \in {400, 404} => RecordsBy(t)' = {}
      ]_vars

\* C19 witness: one request was answered 404 for a missing receiver and a
\* concurrent one 400 for insufficient funds, both rolled back.
C19_Witness ==
    \E t, u \in Txns :
        /\ adapter[t] /\ Done(t) /\ err[t] = AccountNotFound(req[t].receiver)
        /\ req[t].sender \in Wallets /\ status[t] = 404
        /\ adapter[u] /\ Done(u) /\ err[u].kind = "InsufficientFunds"
        /\ status[u] = 400
        /\ transactions = {} /\ balance = initial

\* (C19) the remaining rows of the mapping: a self-transfer answered 400 and
\* a deadlock victim answered 500.
C19_OtherStatusesReached ==
    \E t, u \in Txns :
        /\ adapter[t] /\ Done(t) /\ err[t] = SelfTransfer /\ status[t] = 400
        /\ adapter[u] /\ Done(u) /\ err[u].kind \in {"DeadlockDetected", "Unexpected"}
        /\ status[u] = 500 /\ RecordsBy(u) = {}

\* The messages of task name n sent for t's request.
TasksNamed(t, n) == {i \in TasksBy(t) : tasks[i].task = n}

C21_InsufficientFundsDetails ==
    [][\A t \in Txns :
        /\ err'[t].kind = "InsufficientFunds" =>
              /\ err'[t].id = req'[t].sender
              /\ err'[t].required = req'[t].amount
              /\ err'[t].available = sender_wallet'[t].balance
              /\ err'[t].available < err'[t].required
              /\ ~HasWrites(t)' /\ pending'[t] = {} /\ RecordsBy(t)' = {}
        /\ (err[t].kind = "InsufficientFunds" /\ RollsBack(t)) =>
              balance' = balance /\ version' = version
      ]_vars

\* C21 witness: a pessimistic transfer that was affordable when called waited
\* for the sender's lock and failed with the balance it read under the lock,
\* which is not the balance at the time of the call.
C21_Witness ==
    \E t \in Txns :
        /\ Done(t) /\ Pessimistic(t) /\ err[t].kind = "InsufficientFunds"
        /\ pre[t][req[t].sender].balance >= req[t].amount
        /\ err[t].available = balance[req[t].sender]
        /\ err[t].available # pre[t][req[t].sender].balance

\* C22 (as stated). Documented retry pattern: when a caller that caught
\* ConcurrencyError and called the optimistic engine again inside the same
\* block commits a transfer that finally succeeded, the commit debits the
\* sender exactly once by the amount and credits the receiver exactly once
\* by the amount, whichever wallet the earlier conflict was on.
C22_RetryTransfersOnce ==
    [][\A t \in Txns :
        (Commits(t) /\ Optimistic(t) /\ attempt[t] > 0) =>
            /\ balance'[req[t].sender] = balance[req[t].sender] - req[t].amount
            /\ balance'[req[t].receiver] = balance[req[t].receiver] + req[t].amount
      ]_vars

\* (C22) a retried transfer has committed with the sender debited twice.
C22_DoubleDebit ==
    \E t \in Txns :
        /\ Succeeded(t) /\ attempt[t] > 0
        /\ \A u \in Txns \ {t} : req[u] # NoReq => req[t].sender \notin {req[u].sender, req[u].receiver}
        /\ balance[req[t].sender] = initial[req[t].sender] - 2 * req[t].amount


\* The kinds of failure the engine raises for a request it rejects.
BusinessErrors ==
    {"InvalidAmount", "AccountNotFound", "SelfTransfer", "InsufficientFunds"}

\* The statuses the adapter gives to success and to rejected requests.
BusinessStatuses == {200, 400, 404, 422}

\* C23. When the store aborts the lock wait of a pessimistic transfer, the
\* call ends with a failure that is neither success nor one of the business
\* errors (as an exception of the engine, and as the adapter's status), and
\* nothing of that transfer is persisted: at the abort it has staged no
\* balance, version or record, and its rollback leaves the committed
\* wallets and records as they were, with no record of it.
C23_LockWaitAbortSurfaces ==
    [][\A t \in Txns :
        /\ (Pessimistic(t) /\ Waiting(t) /\ pc'[t] # pc[t]) =>
              /\ pc'[t] = "raised"
              /\ err'[t].kind \notin BusinessErrors \cup {"None"}
              /\ store' = store
              /\ ~HasWrites(t)' /\ pending'[t] = {}
        /\ (Pessimistic(t) /\ RollsBack(t) /\ err[t].kind = "DeadlockDetected") =>
              /\ adapter[t] => status'[t] \notin BusinessStatuses \cup {0}
              /\ store' = store
              /\ RecordsBy(t)' = {}
              /\ \A w \in Wallets : lock'[w] # t
      ]_vars

\* C23 witness: of two mirror requests the store aborted one while it waited
\* for the receiver's lock; it was answered 500 and left nothing, and the
\* other one went through.
C23_Witness ==
    \E t, u \in Txns :
        /\ adapter[t] /\ Done(t) /\ Pessimistic(t)
        /\ err[t] = DeadlockDetected(req[t].receiver)
        /\ status[t] = 500 /\ RecordsBy(t) = {}
        /\ adapter[u] /\ status[u] = 200
        /\ req[u].sender = req[t].receiver /\ req[u].receiver = req[t].sender
        /\ balance[req[t].sender] = initial[req[t].sender] + req[u].amount


\* The ids of the committed records.
TransferIds == {x.id : x \in transactions}

WalletsOf(u) == {x \in WalletsTable : x.user_id = u}

\* C25. Owner uniqueness: an attempt to create a wallet for an owner that
\* already has one is rejected on the uniqueness of user_id and leaves the
\* wallets table, the first wallet included, as it was; and after every
\* step each owner has at most one wallet.
C25_OneWalletPerOwner ==
    [][/\ \A u \in Users : Cardinality(WalletsOf(u)') <= 1
       /\ (last' # last /\ last'.table = "wallets"
             /\ WalletsOf(last'.row.user_id) # {}) =>
               /\ "uq_wallets_user_id" \in last'.violated
               /\ WalletsTable' = WalletsTable
               /\ version' = version
       /\ (last' # last /\ last'.table = "wallets" /\ last'.violated = {}) =>
               /\ WalletsOf(last'.row.user_id) = {}
               /\ WalletsTable' = WalletsTable \cup {last'.row}
      ]_vars

\* C25 witness: a user was created and got a first wallet; the attempt to
\* create a second one for that user, under another id and with another
\* balance, broke the uniqueness of user_id only, and the first is as it was.
C25_Witness ==
    \E x \in wallet_rows :
        /\ x.user_id \notin {Owner[w] : w \in Wallets}
        /\ last.table = "wallets"
        /\ last.row.user_id = x.user_id
        /\ last.row.id # x.id /\ last.row.balance # x.balance
        /\ last.violated = {"uq_wallets_user_id"}
        /\ wallet_rows = {x}


\* C26. Referential integrity: an attempt to create a Transaction row whose
\* sender or receiver id names no wallet is rejected on that foreign key and
\* leaves the transactions table as it was; an accepted row references two
\* wallets that exist; and after every step every row of the table does.
C26_ReferencesExist ==
    [][/\ \A x \in transactions' :
             x.sender \in WalletIds' /\ x.receiver \in WalletIds'
       /\ (last' # last /\ last'.table = "transactions") =>
             /\ last'.row.sender \notin WalletIds =>
                   /\ "fk_transactions_sender_wallet_id" \in last'.violated
                   /\ transactions' = transactions
             /\ last'.row.receiver \notin WalletIds =>
                   /\ "fk_transactions_receiver_wallet_id" \in last'.violated
                   /\ transactions' = transactions
             /\ last'.violated = {} =>
                   /\ {last'.row.sender, last'.row.receiver} \subseteq WalletIds
                   /\ transactions' = transactions \cup {last'.row}
      ]_vars

\* C26 witness: a row from an existing wallet to a wallet created in this run
\* was accepted, and a later row to an id that names no wallet broke the
\* receiver's foreign key only and was not inserted.
C26_Witness ==
    \E x \in transactions :
        /\ x.sender \in Wallets
        /\ \E w \in wallet_rows : w.id = x.receiver
        /\ last.table = "transactions"
        /\ last.row.sender \in Wallets /\ last.row.receiver = Missing
        /\ last.violated = {"fk_transactions_receiver_wallet_id"}
        /\ last.row \notin transactions
        /\ transactions = {x}


C27_OtherCasesReached ==
    \/ /\ codec.phase = "restored"
       /\ codec.original = [coef |-> 12, exp |-> 1]
       /\ codec.json = <<"1", ".", "2", "E", "+", "2">>
    \/ /\ codec.phase = "retrieved"
       /\ codec.original = [coef |-> 15, exp |-> -1]
       /\ codec.retrieved = [coef |-> 15000, exp |-> -4]


\* C28. Optimistic sender-side conflict stops all writes: when the sender's
\* conditional update matches no row, the call raises ConcurrencyConflict
\* naming the sender, having written no wallet row, taken no row lock and
\* added no record; and from there to the end of the caller's transaction it
\* issues no update of the receiver and no record of it is committed.
C28_SenderConflictStopsWrites ==
    [][\A t \in Txns :
        /\ (UpdatesSender(t) /\ ~Matches(req[t].sender, sender_wallet[t].version)) =>
              /\ err'[t] = ConcurrencyConflict(req[t].sender)
              /\ pc'[t] = "raised"
              /\ writes'[t] = NoWrites /\ pending'[t] = {}
              /\ lock' = lock /\ store' = store
        /\ ( /\ Optimistic(t) /\ pc[t] = "raised" /\ attempt[t] = 0
             /\ req[t].sender # req[t].receiver
             /\ err[t] = ConcurrencyConflict(req[t].sender) ) =>
              /\ pc'[t] \in {"raised", "done"}
              /\ writes'[t] = NoWrites /\ pending'[t] = {}
              /\ \A w \in Wallets : lock'[w] # t
              /\ RecordsBy(t)' = {}
      ]_vars

\* C28 witness: an optimistic transfer lost the race for its sender to a
\* committed transfer out of the same wallet; it ended with
\* ConcurrencyConflict naming the sender, its receiver's row is still at the
\* initial version and balance, and the only record is the winner's.
C28_Witness ==
    \E t, u \in Txns :
        /\ Done(t) /\ Optimistic(t) /\ req[t].sender # req[t].receiver
        /\ err[t] = ConcurrencyConflict(req[t].sender)
        /\ Succeeded(u) /\ req[u].sender = req[t].sender
        /\ req[u].receiver # req[t].receiver
        /\ version[req[t].receiver] = InitVersion
        /\ balance[req[t].receiver] = initial[req[t].receiver]
        /\ RecordsBy(t) = {} /\ Cardinality(transactions) = 1


\* No other call has named wallet w.
OnlyUsedBy(t, w) ==
    \A u \in Txns \ {t} :
        req[u] = NoReq \/ w \notin {req[u].sender, req[u].receiver}

\* C29. Optimistic receiver-side conflict: when the sender's conditional
\* update has succeeded and the receiver's matches no row, the call raises
\* ConcurrencyConflict naming the receiver and adds no record, a record being
\* added only in the step in which the receiver's update succeeds; and the
\* caller's rollback drops the sender's update: the committed sender row is
\* at the version the call read, at its values from before the call when no
\* other call used that wallet, and no record of the call exists.
C29_ReceiverConflictRollsBackDebit ==
    [][\A t \in Txns :
        /\ (UpdatesReceiver(t) /\ ~Matches(req[t].receiver, receiver_wallet[t].version)) =>
              /\ err'[t] = ConcurrencyConflict(req[t].receiver)
              /\ pc'[t] = "raised"
              /\ pending'[t] = {}
              /\ writes'[t] = writes[t] /\ writes[t][req[t].sender] # NoWrite
              /\ store' = store
        /\ (Optimistic(t) /\ pending'[t] # pending[t] /\ pending'[t] # {}) =>
              /\ UpdatesReceiver(t) /\ pc'[t] = "returned"
              /\ writes'[t][req[t].sender] # NoWrite
              /\ writes'[t][req[t].receiver] # NoWrite
        /\ ( /\ Optimistic(t) /\ RollsBack(t) /\ attempt[t] = 0
             /\ req[t].sender # req[t].receiver
             /\ err[t] = ConcurrencyConflict(req[t].receiver) ) =>
              /\ store' = store
              /\ version'[req[t].sender] = sender_wallet[t].version
              /\ OnlyUsedBy(t, req[t].sender) =>
                    /\ balance'[req[t].sender] = pre[t][req[t].sender].balance
                    /\ version'[req[t].sender] = pre[t][req[t].sender].version
              /\ ~HasWrites(t)' /\ RecordsBy(t)' = {}
              /\ \A w \in Wallets : lock'[w] # t
      ]_vars

\* C29 witness: an optimistic transfer had updated its sender when its
\* receiver's update found the version another committed transfer had left;
\* it ended with ConcurrencyConflict naming the receiver, and its sender,
\* which no other call used, is at the initial balance and version.
C29_Witness ==
    \E t \in Txns :
        /\ Done(t) /\ Optimistic(t) /\ req[t].sender # req[t].receiver
        /\ err[t] = ConcurrencyConflict(req[t].receiver)
        /\ OnlyUsedBy(t, req[t].sender)
        /\ balance[req[t].sender] = initial[req[t].sender]
        /\ version[req[t].sender] = InitVersion
        /\ version[req[t].receiver] = InitVersion + 1
        /\ RecordsBy(t) = {} /\ Cardinality(transactions) = 1


\* Session t takes (resp. gives up) the row lock of w in this step.
Acquires(t, w) == lock[w] # t /\ lock'[w] = t
Releases(t, w) == lock[w] = t /\ lock'[w] # t

\* The caller's transaction ends in this step, by commit or by rollback.
EndsTransaction(t) ==
    /\ pc[t] \in {"returned", "refreshed", "raised"}
    /\ pc'[t] \in {"done", "enqueue_email"}

\* C30. Pessimistic lock protocol order: a pessimistic transfer takes the
\* sender's lock at its first locking read and the receiver's only at the
\* second, with the sender's held; it changes no balance and adds no record
\* unless it holds both locks; and it gives up a lock only in the step in
\* which its caller's transaction ends, which gives up all of them.
C30_LockProtocolOrder ==
    [][\A t \in Txns : Pessimistic(t) =>
        /\ \A w \in Wallets :
              /\ Acquires(t, w) =>
                    \/ pc[t] = "lock_sender" /\ w = req[t].sender
                    \/ /\ pc[t] = "lock_receiver" /\ w = req[t].receiver
                       /\ lock[req[t].sender] = t
              /\ Releases(t, w) =>
                    /\ EndsTransaction(t)
                    /\ \A x \in Wallets : lock'[x] # t
        /\ (HasWrites(t)' \/ pending'[t] # {}) =>
              /\ lock'[req[t].sender] = t /\ lock'[req[t].receiver] = t
              /\ pc'[t] \in {"returned", "refreshed"}
        /\ (pc[t] = "lock_sender" /\ pc'[t] # pc[t]) =>
              pc'[t] \in {"lock_receiver", "raised"}
      ]_vars

\* C30 witness: a pessimistic transfer holds both locks with its two balance
\* changes and its record staged, its caller's transaction still open, while
\* another pessimistic transfer waits for the sender's lock.
C30_Witness ==
    \E t, u \in Txns :
        /\ Pessimistic(t) /\ pc[t] = "returned"
        /\ req[t].sender # req[t].receiver
        /\ lock[req[t].sender] = t /\ lock[req[t].receiver] = t
        /\ writes[t][req[t].sender] # NoWrite /\ writes[t][req[t].receiver] # NoWrite
        /\ pending[t] # {}
        /\ Pessimistic(u) /\ pc[u] = "lock_sender" /\ WaitsFor(u, t)


\* C31. Optimistic version increments: the commit of a successful optimistic
\* transfer leaves the sender's and the receiver's committed versions each
\* exactly 1 above the version the transfer captured when it read the row,
\* which is also 1 above the version committed just before.
C31_OptimisticVersionsPlusOne ==
    [][\A t \in Txns :
        (Optimistic(t) /\ attempt[t] = 0 /\ pc[t] \in {"returned", "refreshed"}
           /\ pc'[t] = "done") =>
            /\ version'[req[t].sender] = sender_wallet[t].version + 1
            /\ version'[req[t].receiver] = receiver_wallet[t].version + 1
            /\ version'[req[t].sender] = version[req[t].sender] + 1
            /\ version'[req[t].receiver] = version[req[t].receiver] + 1
      ]_vars

\* C31 witness: an optimistic transfer that captured its sender at a version
\* another committed optimistic transfer had already raised has succeeded,
\* and the sender is one version further.
C31_Witness ==
    \E t, u \in Txns :
        /\ t # u /\ Succeeded(t) /\ Optimistic(t) /\ Succeeded(u) /\ Optimistic(u)
        /\ sender_wallet[t].version = InitVersion + 1
        /\ receiver_wallet[t].version = InitVersion
        /\ version[req[t].sender] = InitVersion + 2
        /\ version[req[t].receiver] = InitVersion + 1


\* The same request but for the strategy.
SameRequest(t, u) ==
    /\ req[t] # NoReq /\ req[u] # NoReq
    /\ req[t].sender = req[u].sender /\ req[t].receiver = req[u].receiver
    /\ req[t].amount = req[u].amount

\* C32. Strategy parity in isolation: of transfers run one at a time, a
\* pessimistic and an optimistic one with the same request that began on the
\* same committed wallets ended with the same error (kind, named wallet,
\* required and available amounts) or both without one; and the commit of a
\* successful transfer, whatever its strategy, leaves every balance at its
\* value before the call less the amount for the sender and plus the amount
\* for the receiver, and adds the one record (sender, receiver, amount,
\* COMPLETED).
C32_StrategyParity ==
    [][/\ \A t, u \in Txns :
            ( /\ Done(t)' /\ Done(u)'
              /\ Pessimistic(t)' /\ Optimistic(u)'
              /\ SameRequest(t, u)'
              /\ [w \in Wallets |-> pre'[t][w].balance] = [w \in Wallets |-> pre'[u][w].balance] )
            => err'[t] = err'[u]
       /\ \A t \in Txns :
            (pc[t] = "returned" /\ pc'[t] = "done") =>
                /\ balance' = [w \in Wallets |->
                       pre[t][w].balance
                         + (IF w = req[t].receiver THEN req[t].amount ELSE 0)
                         - (IF w = req[t].sender THEN req[t].amount ELSE 0)]
                /\ \E x \in transactions' :
                      /\ transactions' = transactions \cup {x}
                      /\ x \notin transactions
                      /\ x.sender = req[t].sender /\ x.receiver = req[t].receiver
                      /\ x.amount = req[t].amount /\ x.status = "COMPLETED"
       /\ \A t \in Txns :
            (pc[t] = "raised" /\ pc'[t] = "done") => store' = store
      ]_vars

\* C32 witness: the same request, for more than the sender holds, was run
\* under the pessimistic and then under the optimistic strategy from the
\* same wallets, and both ended with the same InsufficientFunds.
C32_Witness ==
    \E t, u \in Txns :
        /\ Done(t) /\ Done(u) /\ Pessimistic(t) /\ Optimistic(u)
        /\ SameRequest(t, u) /\ pre[t] = pre[u]
        /\ err[t].kind = "InsufficientFunds" /\ err[u] = err[t]
        /\ err[t].available = initial[req[t].sender]

\* (C32) the success case: the same request succeeded under the optimistic
\* and then under the pessimistic strategy, each moving the amount once.
C32_BothSucceed ==
    \E t, u \in Txns :
        /\ Succeeded(t) /\ Succeeded(u) /\ Optimistic(t) /\ Pessimistic(u)
        /\ SameRequest(t, u)
        /\ balance[req[t].sender] = initial[req[t].sender] - 2 * req[t].amount
        /\ balance[req[t].receiver] = initial[req[t].receiver] + 2 * req[t].amount
        /\ Cardinality(transactions) = 2


\* How far an optimistic call has come.
Position(p) ==
    CASE p = "idle" -> 0
      [] p = "read_sender" -> 1
      [] p = "read_receiver" -> 2
      [] p = "update_sender" -> 3
      [] p = "update_receiver" -> 4
      [] p \in {"returned", "raised"} -> 5
      [] OTHER -> 6

\* A call of the engine only moves forward: it passes each read and each
\* conditional update at most once, and the step that finds rowcount 0
\* raises ConcurrencyConflict at once, reading nothing and writing nothing.
EngineNeverRetries ==
    \A t \in Txns :
        /\ (pc'[t] # pc[t] /\ attempt'[t] = attempt[t]) =>
               Position(pc'[t]) > Position(pc[t])
        /\ (pc[t] # "raised" /\ pc'[t] = "raised"
              /\ err'[t].kind = "ConcurrencyConflict") =>
               /\ pc[t] \in {"update_sender", "update_receiver"}
               /\ sender_wallet'[t] = sender_wallet[t]
               /\ receiver_wallet'[t] = receiver_wallet[t]
               /\ writes'[t] = writes[t] /\ lock' = lock

\* A retry of the caller during which no other session committed a change
\* to the wallets or held a row against it.
QuietRetry(t) ==
    /\ Done(t) /\ attempt[t] >= 1
    /\ ~interfered[t] /\ err[t].kind # "DeadlockDetected"

\* C33. The engine performs no retries (each read and each conditional
\* update of a call happens at most once, and rowcount 0 raises
\* ConcurrencyConflict without another read or write); a caller's retry in a
\* fresh transaction, with no concurrent writer while it runs, does not
\* conflict: it ends as the committed rows it reads call for -- it succeeds
\* and moves the amount when the sender still holds it, and fails with
\* InsufficientFunds (available = the sender's committed balance) when the
\* transfer that caused the conflict has left too little.
C33_RetryFollowsFreshRead ==
    [][/\ EngineNeverRetries
       /\ \A t \in Txns :
            QuietRetry(t)' =>
                /\ err'[t] = ExpectedOutcome(req'[t], pre'[t])
                /\ err'[t] = NoErr =>
                      /\ balance'[req'[t].sender] =
                             pre'[t][req'[t].sender].balance - req'[t].amount
                      /\ balance'[req'[t].receiver] =
                             pre'[t][req'[t].receiver].balance + req'[t].amount
                      /\ Cardinality(RecordsBy(t)') = 1
                /\ err'[t] # NoErr => RecordsBy(t)' = {}
      ]_vars

\* C33 as stated: every such retry succeeds.
C33_RetrySucceeds ==
    [][/\ EngineNeverRetries
       /\ \A t \in Txns : QuietRetry(t)' => Succeeded(t)'
      ]_vars

\* C33 witness: a transfer that conflicted on its first attempt succeeded on
\* the caller's retry, on top of the transfer that had caused the conflict.
C33_Witness ==
    \E t, u \in Txns :
        /\ t # u /\ Succeeded(u) /\ attempt[u] = 0
        /\ QuietRetry(t) /\ Succeeded(t) /\ attempt[t] = 1
        /\ req[t].sender = req[u].sender
        /\ balance[req[t].sender] =
               initial[req[t].sender] - req[t].amount - req[u].amount
        /\ Cardinality(transactions) = 2

\* (C33) the retry that does not succeed: the transfer that caused the
\* conflict took what the sender held.
C33_RetryInsufficient ==
    \E t \in Txns :
        /\ QuietRetry(t) /\ err[t].kind = "InsufficientFunds"
        /\ err[t].available = balance[req[t].sender]


\* One pessimistic and one optimistic transfer that name a common wallet.
MixedPair(t, u) ==
    /\ t # u /\ req[t] # NoReq /\ req[u] # NoReq
    /\ Pessimistic(t) /\ Optimistic(u)
    /\ {req[t].sender, req[t].receiver} \cap {req[u].sender, req[u].receiver}
           \cap Wallets # {}

\* C34 (as stated). Mixed-strategy conservation: with a pessimistic and an
\* optimistic transfer on a common wallet, every committed state has each
\* wallet's balance at its initial balance plus its committed credits minus
\* its committed debits, and so the total of the balances at the initial
\* total.
C34_MixedConservation ==
    (\E t, u \in Txns : MixedPair(t, u)) =>
        /\ \A w \in Wallets : balance[w] = Ledger(w)
        /\ balance["A"] + balance["B"] + balance["C"]
             = initial["A"] + initial["B"] + initial["C"]

\* (C34) the lost update: the optimistic transfer read the sender, the
\* pessimistic transfer then committed a debit of the same wallet and left
\* its version as it was, and the optimistic transfer's update matched and
\* wrote the balance computed from its old read.
C34_LostUpdate ==
    \E t, u \in Txns :
        /\ MixedPair(t, u) /\ Succeeded(t) /\ Succeeded(u)
        /\ req[t].sender = req[u].sender
        /\ balance[req[u].sender] = sender_wallet[u].balance - req[u].amount
        /\ balance[req[u].sender] > Ledger(req[u].sender)


\* C35. Optimistic-only ledger consistency: with optimistic transfers only,
\* every committed state has each wallet's balance at its initial balance
\* plus the amounts of the committed records naming it as receiver minus
\* those naming it as sender; and a transfer commits its two absolute
\* balances only onto the very balances it read, so it overwrites no change
\* committed since its read.
C35_OptimisticLedger ==
    [][/\ \A w \in Wallets : balance'[w] = Ledger(w)'
       /\ \A t \in Txns :
            Commits(t) =>
                /\ balance[req[t].sender] = sender_wallet[t].balance
                /\ balance[req[t].receiver] = receiver_wallet[t].balance
                /\ balance'[req[t].sender] = balance[req[t].sender] - req[t].amount
                /\ balance'[req[t].receiver] = balance[req[t].receiver] + req[t].amount
      ]_vars

\* C35 witness: two transfers committed one after the other on a wallet that
\* a third one, which had read it before, then failed to update; the
\* balances are those of the two committed records.
C35_Witness ==
    \E x \in Wallets, t, u, v \in Txns :
        /\ Succeeded(t) /\ Succeeded(u) /\ Touches(t, x) /\ Touches(u, x)
        /\ CapturedVersion(u, x) = CapturedVersion(t, x) + 1
        /\ err[v] = ConcurrencyConflict(x) /\ Done(v)
        /\ Cardinality(transactions) = 2
        /\ balance[x] = Ledger(x) /\ balance[x] # initial[x]


\* Two pessimistic transfers out of the same existing wallet into existing
\* wallets, each amount within the sender's initial balance and the two
\* together beyond it.
OverdrawPair(t, u) ==
    /\ t # u /\ Pessimistic(t) /\ Pessimistic(u)
    /\ req[t].sender = req[u].sender
    /\ req[t].sender \in Wallets
    /\ req[t].receiver \in Wallets \ {req[t].sender}
    /\ req[u].receiver \in Wallets \ {req[t].sender}
    /\ req[t].amount > 0 /\ req[u].amount > 0
    /\ req[t].amount <= initial[req[t].sender]
    /\ req[u].amount <= initial[req[t].sender]
    /\ req[t].amount + req[u].amount > initial[req[t].sender]

\* C36. Funds are checked under the lock: of two pessimistic transfers out
\* of wallet A whose amounts each fit A's balance and together exceed it,
\* exactly one succeeds, and the other fails with InsufficientFunds whose
\* required amount is its own and whose available amount is A's balance
\* after the first one's commit, which is the balance A keeps.
C36_ExactlyOneOfOverdraw ==
    \A t, u \in Txns :
        (OverdrawPair(t, u) /\ Done(t) /\ Done(u)) =>
            \E w \in {t, u} :
                LET l == CHOOSE x \in {t, u} : x # w
                    a == req[w].sender
                IN
                /\ Succeeded(w)
                /\ err[l] = InsufficientFunds(a, req[l].amount,
                                              initial[a] - req[w].amount)
                /\ balance[a] = initial[a] - req[w].amount
                /\ RecordsBy(w) # {} /\ RecordsBy(l) = {}

\* C36 witness: the transfer that failed was called while the sender still
\* held its initial balance, ahead of the other's commit.
C36_Witness ==
    \E t, u \in Txns :
        /\ OverdrawPair(t, u) /\ Succeeded(t) /\ Done(u)
        /\ pre[u][req[u].sender].balance = initial[req[u].sender]
        /\ interfered[u]
        /\ err[u].kind = "InsufficientFunds"
        /\ err[u].available = initial[req[u].sender] - req[t].amount
        /\ err[u].available > 0


\* A pessimistic transfer has failed a business check while holding a row lock.
FailedHolding(t) ==
    /\ pc[t] = "raised" /\ Pessimistic(t)
    /\ err[t].kind \in {"AccountNotFound", "SelfTransfer", "InsufficientFunds"}
    /\ \E w \in Wallets : lock[w] = t

\* The balance of w as u's engine read it.
ReadBalance(u, w) ==
    IF w = req[u].sender THEN sender_wallet[u].balance
    ELSE receiver_wallet[u].balance

\* C37. The locks of a failing pessimistic transfer are released: once a
\* pessimistic transfer has failed a business check (receiver missing,
\* self-transfer, insufficient funds) holding one or both row locks, its
\* caller's block rolls back: that is the transfer's next step, it leaves
\* the committed wallets and records as they were and the transfer holding
\* no lock, and it does come; and a transfer waiting for one of those rows
\* then gets the row, and finds on it the balance it had before.
C37_FailedLocksReleased ==
    /\ [][\A t \in Pair :
            (FailedHolding(t) /\ pc'[t] # pc[t]) =>
                (Done(t)' /\ store' = store /\ \A w \in Wallets : lock'[w] # t)
         ]_vars
    /\ \A t \in Pair :
          /\ FailedHolding(t) ~> (Done(t) /\ \A w \in Wallets : lock[w] # t)
          /\ \A u \in Pair \ {t} : \A w \in Wallets :
                 (FailedHolding(t) /\ lock[w] = t /\ Waiting(u) /\ Wants(u) = w) ~>
                     (lock[w] = u /\ balance[w] = initial[w]
                        /\ ReadBalance(u, w) = initial[w])

\* C37 witness: a pessimistic transfer that waited for a row held by a
\* failed transfer holds it after that transfer's rollback and has read the
\* unchanged balance.
C37_Witness ==
    \E t, u \in Pair :
        /\ t # u /\ Done(t) /\ Pessimistic(t)
        /\ err[t].kind = "InsufficientFunds"
        /\ Pessimistic(u) /\ pc[u] = "lock_receiver"
        /\ lock[req[u].sender] = u
        /\ req[u].sender \in {req[t].sender, req[t].receiver}
        /\ pre[u] = pre[t]
        /\ sender_wallet[u].balance = initial[req[u].sender]
        /\ balance = initial


\* A business failure's raise finds nothing written: what a commit in place
\* of the rollback would leave is the committed rows and no new record.
RaisedClean(t) ==
    /\ ~HasWrites(t) /\ pending[t] = {}
    /\ \A w \in Wallets : Flushed(t, w) = Row(w)

C38_DeadlockLeavesWrite ==
    \E t \in Txns :
        /\ pc[t] = "raised" /\ Optimistic(t)
        /\ err[t] = DeadlockDetected(req[t].receiver)
        /\ writes[t][req[t].sender] # NoWrite
        /\ lock[req[t].sender] = t

\* (C38) what holds: business failures raise with nothing written, and a
\* raise of the engine's own with a write behind is the receiver's conflict.
C38_EngineRaises ==
    \A t \in Txns :
        pc[t] = "raised" =>
            /\ err[t].kind \in BusinessErrors => RaisedClean(t)
            /\ (HasWrites(t) /\ err[t].kind # "DeadlockDetected") =>
                  /\ Optimistic(t)
                  /\ err[t] = ConcurrencyConflict(req[t].receiver)


\* A pessimistic transfer of a positive amount from an existing wallet to itself.
SelfCall(t) ==
    /\ Pessimistic(t) /\ req[t].amount > 0
    /\ req[t].sender \in Wallets /\ req[t].receiver = req[t].sender

\* C39. A pessimistic self-transfer on an existing wallet asks for the same
\* row lock twice in one transaction: at the second request it holds the
\* lock from the first, the request does not wait (the call waits for no
\* session, itself included, and is in no cycle of waits), and the step ends
\* the call with SelfTransfer, nothing written and no record added; the
\* rollback that follows leaves the wallet as it was and releases the lock.
C39_SelfTransferReentrantLock ==
    [][\A t \in Txns :
        SelfCall(t) =>
            /\ pc[t] = "lock_receiver" =>
                  /\ lock[req[t].sender] = t
                  /\ LockFree(t, req[t].receiver)
                  /\ ~Waiting(t) /\ ~Deadlocked(t)
                  /\ ENABLED PessLockReceiver(t)
            /\ (pc[t] = "lock_receiver" /\ pc'[t] # pc[t]) =>
                  /\ pc'[t] = "raised" /\ err'[t] = SelfTransfer
                  /\ lock' = lock
                  /\ ~HasWrites(t)' /\ pending'[t] = {}
                  /\ store' = store
            /\ (pc[t] = "raised" /\ pc'[t] # pc[t]) =>
                  /\ Done(t)' /\ err'[t] = SelfTransfer
                  /\ store' = store /\ RecordsBy(t)' = {}
                  /\ \A w \in Wallets : lock'[w] # t
      ]_vars

\* C39 witness: a self-transfer that first waited for the wallet's lock, held
\* by a transfer that then committed, has ended with SelfTransfer; the
\* wallet holds what that other transfer left.
C39_Witness ==
    \E t, u \in Txns :
        /\ t # u /\ SelfCall(t) /\ Done(t) /\ err[t] = SelfTransfer
        /\ Succeeded(u) /\ req[u].sender = req[t].sender
        /\ pre[t][req[t].sender].balance = initial[req[t].sender]
        /\ sender_wallet[t].balance = initial[req[t].sender] - req[u].amount
        /\ receiver_wallet[t] = sender_wallet[t]
        /\ balance[req[t].sender] = sender_wallet[t].balance
        /\ lock[req[t].sender] = NoTxn

============================================================================
